---------------------------- MODULE Spec2Model ----------------------------
(***************************************************************************)
(* Model of the MX32 chat backend (Backend_IA_mx32): the Geographic Scope  *)
(* Guard, the chat pipeline of SimpleRAGAgent and RAGLangChainAgent, the    *)
(* provider client and the per-session conversation memory.                 *)
(*                                                                         *)
(* Text is a sequence of characters.  A character is a one-letter string;  *)
(* an accented letter is written with a mark after it ("a'" is a-acute,    *)
(* "n~" is n-tilde, "?'" is the inverted question mark), so that           *)
(* str.lower() and the substring test `kw in text` are computed on         *)
(* characters as Python computes them.                                      *)
(*                                                                         *)
(* Confidence values are written in tenths: 10 is 1.0, 9 is 0.9, 0 is 0.0. *)
(***************************************************************************)
EXTENDS Integers, Sequences, FiniteSets, TLC

VARIABLES
  fn_message,           \* input of the scope guard applied as a pure function
  fn_verdict,           \* its result, <<is_mexico_related, restriction_message>>
  fn_call,              \* input of the other functions applied on their own
  fn_log,               \* what was applied to it and what it returned
  nextId,               \* number of the next chat request (ghost: names a turn)
  req,                  \* the coroutines of process_chat_with_rag in progress
  conversation_memory,  \* SimpleRAGAgent.conversation_memory: session -> list object
  lists,                \* the heap of Python list objects: object id -> entries
  appended,             \* ghost: per session, every entry in the order appended
  lc_memory,            \* RAGLangChainAgent.conversation_memory: session -> messages
  lc_entity,            \* RAGLangChainAgent.entity_memory: sessions that have one
  loop_tasks,           \* the coroutines of the event loop: task -> where it is
  loop_thread           \* the task running on the loop's thread (0: none)

vars ==
  <<fn_message, fn_verdict, fn_call, fn_log, nextId, req, conversation_memory,
    lists, appended, lc_memory, lc_entity, loop_tasks, loop_thread>>

-----------------------------------------------------------------------------
(* Text *)

\* The lower-case form of each upper-case character.
lower_case_of ==
  ("A" :> "a" @@ "B" :> "b" @@ "C" :> "c" @@ "D" :> "d")
    @@ ("E" :> "e" @@ "F" :> "f" @@ "G" :> "g" @@ "H" :> "h")
    @@ ("I" :> "i" @@ "J" :> "j" @@ "K" :> "k" @@ "L" :> "l")
    @@ ("M" :> "m" @@ "N" :> "n" @@ "O" :> "o" @@ "P" :> "p")
    @@ ("Q" :> "q" @@ "R" :> "r" @@ "S" :> "s" @@ "T" :> "t")
    @@ ("U" :> "u" @@ "V" :> "v" @@ "W" :> "w" @@ "X" :> "x")
    @@ ("Y" :> "y" @@ "Z" :> "z" @@ "A'" :> "a'" @@ "E'" :> "e'")
    @@ ("I'" :> "i'" @@ "O'" :> "o'" @@ "U'" :> "u'" @@ "N~" :> "n~")

\* str.lower() on one character.
lower_char(c) ==
  IF c \in DOMAIN lower_case_of THEN lower_case_of[c] ELSE c

\* str.lower()
RECURSIVE lower(_)
lower(text) ==
  IF text = <<>> THEN <<>>
  ELSE <<lower_char(Head(text))>> \o lower(Tail(text))

\* Python's `kw in text` on strings: kw occurs in text as a substring.
contains(kw, text) ==
  \E i \in 1..(Len(text) - Len(kw) + 1) :
    \A j \in 1..Len(kw) : text[i + j - 1] = kw[j]

\* any(kw in text for kw in keywords)
any_keyword_in(keywords, text) ==
  \E i \in 1..Len(keywords) : contains(keywords[i], text)

-----------------------------------------------------------------------------
(* Geographic Scope Guard *)

external_countries ==
  <<
    <<"e","s","t","a","d","o","s"," ","u","n","i","d","o","s">>,
    <<"u","s","a">>,
    <<"e","e","u","u">>,
    <<"u","n","i","t","e","d"," ","s","t","a","t","e","s">>,
    <<"a","m","e","r","i","c","a">>,
    <<"c","a","n","a","d","a">>,
    <<"c","a","n","a","d","a'">>,
    <<"b","r","a","s","i","l">>,
    <<"a","r","g","e","n","t","i","n","a">>,
    <<"c","o","l","o","m","b","i","a">>,
    <<"c","h","i","l","e">>,
    <<"p","e","r","u">>,
    <<"p","e","r","u'">>,
    <<"v","e","n","e","z","u","e","l","a">>,
    <<"e","c","u","a","d","o","r">>,
    <<"b","o","l","i","v","i","a">>,
    <<"p","a","r","a","g","u","a","y">>,
    <<"u","r","u","g","u","a","y">>,
    <<"e","s","p","a","n~","a">>,
    <<"s","p","a","i","n">>,
    <<"f","r","a","n","c","i","a">>,
    <<"f","r","a","n","c","e">>,
    <<"a","l","e","m","a","n","i","a">>,
    <<"g","e","r","m","a","n","y">>,
    <<"i","t","a","l","i","a">>,
    <<"i","t","a","l","y">>,
    <<"c","h","i","n","a">>,
    <<"j","a","p","o","n">>,
    <<"j","a","p","o'","n">>,
    <<"c","o","r","e","a">>,
    <<"k","o","r","e","a">>,
    <<"i","n","d","i","a">>,
    <<"r","u","s","i","a">>,
    <<"r","u","s","s","i","a">>,
    <<"a","u","s","t","r","a","l","i","a">>,
    <<"n","u","e","v","a"," ","z","e","l","a","n","d","a">>,
    <<"n","e","w"," ","z","e","a","l","a","n","d">>,
    <<"r","e","i","n","o"," ","u","n","i","d","o">>,
    <<"u","k">>,
    <<"i","n","g","l","a","t","e","r","r","a">>
  >>

mexico_indicators ==
  <<
    <<"m","e","x","i","c","o">>,
    <<"m","e'","x","i","c","o">>,
    <<"e","s","t","a","d","o","s">>,
    <<"e","s","t","a","d","o">>,
    <<"j","a","l","i","s","c","o">>,
    <<"n","u","e","v","o"," ","l","e","o'","n">>,
    <<"c","i","u","d","a","d"," ","d","e"," ","m","e'","x","i","c","o">>,
    <<"c","d","m","x">>,
    <<"y","u","c","a","t","a'","n">>,
    <<"q","u","i","n","t","a","n","a"," ","r","o","o">>,
    <<"c","a","m","p","e","c","h","e">>,
    <<"t","a","b","a","s","c","o">>,
    <<"c","h","i","a","p","a","s">>,
    <<"o","a","x","a","c","a">>,
    <<"v","e","r","a","c","r","u","z">>,
    <<"p","u","e","b","l","a">>,
    <<"t","l","a","x","c","a","l","a">>,
    <<"h","i","d","a","l","g","o">>,
    <<"q","u","e","r","e'","t","a","r","o">>,
    <<"s","a","n"," ","l","u","i","s"," ","p","o","t","o","s","i'">>,
    <<"t","a","m","a","u","l","i","p","a","s">>,
    <<"c","o","a","h","u","i","l","a">>,
    <<"d","u","r","a","n","g","o">>,
    <<"z","a","c","a","t","e","c","a","s">>,
    <<"a","g","u","a","s","c","a","l","i","e","n","t","e","s">>,
    <<"g","u","a","n","a","j","u","a","t","o">>,
    <<"m","i","c","h","o","a","c","a'","n">>,
    <<"g","u","e","r","r","e","r","o">>,
    <<"m","o","r","e","l","o","s">>,
    <<"m","e","x","i","c","o">>,
    <<"b","a","j","a"," ","c","a","l","i","f","o","r","n","i","a">>,
    <<"b","a","j","a"," ","c","a","l","i","f","o","r","n","i","a"," ","s","u","r">>,
    <<"s","o","n","o","r","a">>,
    <<"s","i","n","a","l","o","a">>,
    <<"n","a","y","a","r","i","t">>,
    <<"c","o","l","i","m","a">>
  >>

ForeignRefusal ==
  "Lo siento, pero solo puedo proporcionar informacion sobre datos de Mexico. [...] Te gustaria que te ayude con informacion sobre algun estado especifico de Mexico?"

MexicoOnlyRefusal ==
  "Solo puedo ayudarte con informacion sobre los 32 estados de Mexico. [...] Sobre que estado de Mexico te gustaria saber?"

\* The loop `for country in external_countries: if country in message_lower:
\* return ...`: the index of the first country found from position i on, 0 if
\* the loop runs to its end.
RECURSIVE first_country_in(_, _)
first_country_in(message_lower, i) ==
  IF i > Len(external_countries) THEN 0
  ELSE IF contains(external_countries[i], message_lower) THEN i
  ELSE first_country_in(message_lower, i + 1)

\* A guard that looks for the Mexican context before the foreign countries.
check_mexico_restriction_indicators_first(message) ==
  LET message_lower == lower(message)
  IN  IF any_keyword_in(mexico_indicators, message_lower)
        THEN <<TRUE, "">>
        ELSE IF first_country_in(message_lower, 1) # 0
               THEN <<FALSE, ForeignRefusal>>
               ELSE <<FALSE, MexicoOnlyRefusal>>

\* A guard with one refusal text for both rejections.
check_mexico_restriction_one_refusal(message) ==
  LET message_lower == lower(message)
  IN  IF first_country_in(message_lower, 1) # 0
        THEN <<FALSE, ForeignRefusal>>
        ELSE IF ~any_keyword_in(mexico_indicators, message_lower)
               THEN <<FALSE, ForeignRefusal>>
               ELSE <<TRUE, "">>

\* SimpleRAGAgent._check_mexico_restriction (RAGLangChainAgent's is the same
\* text): <<is_mexico_related, restriction_message>>.
check_mexico_restriction(message) ==
  LET message_lower == lower(message)
  IN  IF first_country_in(message_lower, 1) # 0
        THEN <<FALSE, ForeignRefusal>>
        ELSE IF ~any_keyword_in(mexico_indicators, message_lower)
               THEN <<FALSE, MexicoOnlyRefusal>>
               ELSE <<TRUE, "">>

-----------------------------------------------------------------------------
(* Keyword entities and the RAG trigger *)

mexico_keywords ==
  <<
    <<"m","e","x","i","c","o">>,
    <<"m","e'","x","i","c","o">>,
    <<"e","s","t","a","d","o","s">>,
    <<"e","s","t","a","d","o">>,
    <<"c","i","u","d","a","d">>,
    <<"m","u","n","i","c","i","p","i","o">>,
    <<"s","e","g","u","r","i","d","a","d">>,
    <<"e","c","o","n","o","m","i","a">>,
    <<"e","c","o","n","o","m","i'","a">>,
    <<"d","e","s","a","r","r","o","l","l","o">>,
    <<"i","n","f","r","a","e","s","t","r","u","c","t","u","r","a">>,
    <<"e","d","u","c","a","c","i","o","n">>,
    <<"e","d","u","c","a","c","i","o'","n">>,
    <<"s","a","l","u","d">>,
    <<"e","m","p","l","e","o">>,
    <<"p","o","b","r","e","z","a">>,
    <<"c","r","i","m","e","n">>
  >>

rag_keywords ==
  <<
    <<"e","s","t","a","d","o">>,
    <<"j","a","l","i","s","c","o">>,
    <<"m","e","x","i","c","o">>,
    <<"a","n","a'","l","i","s","i","s">>,
    <<"d","a","t","o","s">>,
    <<"p","a","r","a'","m","e","t","r","o">>,
    <<"r","a","g">>
  >>

\* SimpleRAGAgent._extract_entities_from_message: the keywords found, in the
\* order of the keyword list.
RECURSIVE entities_from(_, _)
entities_from(message_lower, i) ==
  IF i > Len(mexico_keywords) THEN <<>>
  ELSE IF contains(mexico_keywords[i], message_lower)
         THEN <<mexico_keywords[i]>> \o entities_from(message_lower, i + 1)
         ELSE entities_from(message_lower, i + 1)

extract_entities_from_message(message) ==
  entities_from(lower(message), 1)

\* `x in entities` for a list
in_list(x, list) ==
  \E i \in 1..Len(list) : list[i] = x

KwSeguridad ==
  <<"s","e","g","u","r","i","d","a","d">>

KwEconomia ==
  <<"e","c","o","n","o","m","i","a">>

KwEconomiaAcento ==
  <<"e","c","o","n","o","m","i'","a">>

\* A variant without the cut.
take_all(list, n) ==
  list

\* list[:n]
take(list, n) ==
  SubSeq(list, 1, IF Len(list) < n THEN Len(list) ELSE n)

\* list[-n:]
last(list, n) ==
  SubSeq(list, IF Len(list) > n THEN Len(list) - n + 1 ELSE 1, Len(list))

-----------------------------------------------------------------------------
(* Document store and State Data Aggregator *)

StJalisco ==
  <<"j","a","l","i","s","c","o">>

StSonora ==
  <<"s","o","n","o","r","a">>

StAtlantis ==
  <<"A","t","l","a","n","t","i","s">>

\* The `states` collection of the document store.  Sonora's document has no
\* state_id_replacement.
states_collection ==
  << [id |-> "doc_jalisco", states_name |-> StJalisco, state_id_replacement |-> "14"],
     [id |-> "doc_sonora", states_name |-> StSonora, state_id_replacement |-> ""] >>

\* The `parameters` collection, in the order stream() gives it: the catalog.
\* One document has no name; one names a metric source that has no document
\* and one that has no URL.
parameters_collection ==
  << [id |-> "par_seguridad", name |-> "Situacion de Seguridad",
      related_apis |-> <<"api_delitos", "api_percepcion">>],
     [id |-> "par_economia", name |-> "Economia",
      related_apis |-> <<"api_pib", "api_borrada", "api_sin_url">>],
     [id |-> "par_sin_nombre", name |-> "", related_apis |-> <<"api_pib">>],
     [id |-> "par_educacion", name |-> "Educacion", related_apis |-> <<>>] >>

\* The `special_text` collection: the analysis texts stored.
special_text_collection ==
  { [states_r |-> "doc_jalisco", parameter_r |-> "par_seguridad",
     added_text |-> "La incidencia delictiva de Jalisco bajo en 2024."],
    [states_r |-> "doc_sonora", parameter_r |-> "par_economia",
     added_text |-> "Sonora crece por la mineria."] }

\* The `apis` collection: document id -> document.  A dynamic_url is written
\* as its pieces, "{state_id}" being one of them.
apis_collection ==
  ("api_delitos" :> [apis_name |-> "Delitos", dynamic_url |-> <<"https://datos/delitos/", "{state_id}">>])
  @@ ("api_percepcion" :> [apis_name |-> "Percepcion", dynamic_url |-> <<"https://datos/percepcion/", "{state_id}">>])
  @@ ("api_pib" :> [apis_name |-> "PIB", dynamic_url |-> <<"https://datos/pib/", "{state_id}", "/anual">>])
  @@ ("api_sin_url" :> [apis_name |-> "Sin URL", dynamic_url |-> <<>>])

TextPlaceholder ==
  "No se encontro un texto de analisis para este parametro."

\* What the world does during one aggregation: which read of the document
\* store raises, if any, and how the GET of each metric source ends
\* ("ok": 200 with JSON; "status": another status; "exception": it raises).
StoreReads ==
  {"states", "parameters", "special_text", "apis"}

FetchOutcomes ==
  {"ok", "status", "exception"}

MetricSources ==
  {"api_delitos", "api_percepcion", "api_pib"}

Worlds ==
  [fails : StoreReads \cup {"none"}, fetch : [MetricSources -> FetchOutcomes]]

HealthyWorld ==
  [fails |-> "none", fetch |-> [a \in MetricSources |-> "ok"]]

\* The worlds of the chat requests: the store answers, or its parameter
\* enumeration raises.
ChatWorlds ==
  {HealthyWorld, [HealthyWorld EXCEPT !.fails = "parameters"]}

\* dynamic_url.replace('{state_id}', state_id_replacement)
replace_state_id(dynamic_url, state_id_replacement) ==
  [i \in DOMAIN dynamic_url |->
     IF dynamic_url[i] = "{state_id}" THEN state_id_replacement ELSE dynamic_url[i]]

\* A variant in which the exception of a GET is not caught.
fetch_datos_uncaught(api_id, api_url, world) ==
  IF world.fetch[api_id] = "ok"
    THEN [raised |-> FALSE,
          entries |-> << [nombre |-> apis_collection[api_id].apis_name,
                          url |-> api_url, datos |-> <<"json", api_id>>] >>]
    ELSE [raised |-> world.fetch[api_id] = "exception", entries |-> <<>>]

\* rag_agent.py:130-145, the GET of one metric source in its try: the entry
\* appended on status 200, nothing on another status or on an exception.
fetch_datos(api_id, api_url, world) ==
  IF world.fetch[api_id] = "ok"
    THEN [raised |-> FALSE,
          entries |-> << [nombre |-> apis_collection[api_id].apis_name,
                          url |-> api_url, datos |-> <<"json", api_id>>] >>]
    ELSE [raised |-> FALSE, entries |-> <<>>]

\* datos_apis before any source is read: whether a read raised, the entries
\* appended, the reads made (ghost).
no_datos ==
  [raised |-> FALSE, datos_apis |-> <<>>, reads |-> <<>>]

\* rag_agent.py:128-145: `if api_url:`, the GET and the append.
with_url(before, api_id, api_url, world) ==
  IF api_url = <<>> THEN [before EXCEPT !.reads = @ \o <<"apis">>]
  ELSE [before EXCEPT
          !.raised = fetch_datos(api_id, api_url, world).raised,
          !.reads = @ \o <<"apis", "fetch">>,
          !.datos_apis = @ \o fetch_datos(api_id, api_url, world).entries]

\* rag_agent.py:121-145, one turn of the loop over related_api_ids: the read
\* of the source's document is outside the try of the GET.
with_api(before, api_id, state_id_replacement, world) ==
  IF before.raised THEN before
  ELSE IF world.fails = "apis"
    THEN [before EXCEPT !.raised = TRUE, !.reads = @ \o <<"apis">>]
  ELSE IF api_id \notin DOMAIN apis_collection
    THEN [before EXCEPT !.reads = @ \o <<"apis">>]
  ELSE with_url(before, api_id,
                replace_state_id(apis_collection[api_id].dynamic_url,
                                 state_id_replacement),
                world)

\* rag_agent.py:120-145, the loop over related_api_ids up to its n-th id.
RECURSIVE datos_apis_upto(_, _, _, _)
datos_apis_upto(related_api_ids, n, state_id_replacement, world) ==
  IF n = 0 THEN no_datos
  ELSE with_api(datos_apis_upto(related_api_ids, n - 1, state_id_replacement, world),
                related_api_ids[n], state_id_replacement, world)

\* A variant that looks the analysis text up by the parameter alone.
texto_analisis_of_any_state(param_doc, estado_doc) ==
  LET texts == {t \in special_text_collection : t.parameter_r = param_doc.id}
  IN  IF texts = {} THEN TextPlaceholder
      ELSE (CHOOSE t \in texts : TRUE).added_text

\* rag_agent.py:106-115: the text stored for (state, parameter), or the
\* placeholder.
texto_analisis_of(param_doc, estado_doc) ==
  LET texts == {t \in special_text_collection :
                  t.states_r = estado_doc.id /\ t.parameter_r = param_doc.id}
  IN  IF texts = {} THEN TextPlaceholder
      ELSE (CHOOSE t \in texts : TRUE).added_text

\* rag_agent.py:147-152: the ParametroData made of the text and the entries.
parametro_with(param_doc, texto_analisis, apis) ==
  [raised |-> apis.raised, reads |-> <<"special_text">> \o apis.reads,
   data |-> [id |-> param_doc.id, nombre |-> param_doc.name,
             texto_analisis |-> texto_analisis,
             datos_apis |-> apis.datos_apis]]

\* rag_agent.py:106-152 for one named parameter: its ParametroData.
parametro_data(param_doc, estado_doc, world) ==
  IF world.fails = "special_text"
    THEN [raised |-> TRUE, reads |-> <<"special_text">>,
          data |-> [id |-> "", nombre |-> "", texto_analisis |-> "", datos_apis |-> <<>>]]
    ELSE parametro_with(
           param_doc, texto_analisis_of(param_doc, estado_doc),
           IF param_doc.related_apis # <<>> /\ estado_doc.state_id_replacement # ""
             THEN datos_apis_upto(param_doc.related_apis, Len(param_doc.related_apis),
                                  estado_doc.state_id_replacement, world)
             ELSE no_datos)

\* rag_agent.py:147: parametros_data[param_name] = ParametroData(...); a
\* later document of the same name replaces the earlier.
with_parametro(before, param_doc, p) ==
  [raised |-> p.raised, reads |-> before.reads \o p.reads,
   parametros |-> IF p.raised THEN before.parametros
                  ELSE (param_doc.name :> p.data) @@ before.parametros]

\* rag_agent.py:99-152, one turn of the loop over the catalog: a document
\* without a name is skipped.
next_parametro(before, param_doc, estado_doc, world) ==
  IF before.raised \/ param_doc.name = "" THEN before
  ELSE with_parametro(before, param_doc, parametro_data(param_doc, estado_doc, world))

\* rag_agent.py:99-152, the loop over the catalog up to its n-th document.
RECURSIVE parametros_upto(_, _, _)
parametros_upto(n, estado_doc, world) ==
  IF n = 0 THEN [raised |-> FALSE, parametros |-> <<>>, reads |-> <<>>]
  ELSE next_parametro(parametros_upto(n - 1, estado_doc, world),
                      parameters_collection[n], estado_doc, world)

\* No view: the None obtener_datos_estado_completo returns.  `reads` is
\* ghost: the reads made, in order.
no_view(reads) ==
  [found |-> FALSE, id |-> "", nombre |-> <<>>, state_id_replacement |-> "",
   parametros |-> <<>>, reads |-> reads]

\* A variant that compares the name as it was given.
states_named_as_given(estado_nombre) ==
  {i \in 1..Len(states_collection) :
     states_collection[i].states_name = estado_nombre}

\* A variant that takes the first document when none has the name.
states_named_or_first(estado_nombre) ==
  LET named == {i \in 1..Len(states_collection) :
                  states_collection[i].states_name = lower(estado_nombre)}
  IN  IF named = {} THEN {1} ELSE named

\* The documents of `states` whose states_name is the name in lower case.
states_named(estado_nombre) ==
  {i \in 1..Len(states_collection) :
     states_collection[i].states_name = lower(estado_nombre)}

\* .limit(1): the first of the documents found.
first_of(matches) ==
  CHOOSE i \in matches : \A j \in matches : i <= j

\* rag_agent.py:154-163: the EstadoData returned after the loop, or None when
\* a read of the loop raised.
estado_view(estado_nombre, estado_doc, ps) ==
  IF ps.raised THEN no_view(<<"states", "parameters">> \o ps.reads)
  ELSE [found |-> TRUE, id |-> estado_doc.id, nombre |-> estado_nombre,
        state_id_replacement |-> estado_doc.state_id_replacement,
        parametros |-> ps.parametros,
        reads |-> <<"states", "parameters">> \o ps.reads]

\* rag_agent.py:90-159 for the state document found.
estado_of(estado_nombre, estado_doc, world) ==
  estado_view(estado_nombre, estado_doc,
              parametros_upto(Len(parameters_collection), estado_doc, world))

\* RAGAgent.obtener_datos_estado_completo: the EstadoData of the state, or no
\* view when no document has that states_name or when a read of the store
\* raised (the method's except returns None).
obtener_datos_estado_completo(estado_nombre, world) ==
  IF world.fails = "states" \/ states_named(estado_nombre) = {}
    THEN no_view(<<"states">>)
  ELSE IF world.fails = "parameters" THEN no_view(<<"states", "parameters">>)
  ELSE estado_of(estado_nombre,
                 states_collection[first_of(states_named(estado_nombre))], world)

\* A record with every parameter of the view, whatever was asked for.
consulta_record_unfiltered(estado_data, estado_nombre, parametros) ==
  IF ~estado_data.found
    THEN [raised |-> TRUE, status_code |-> 404, estado |-> estado_nombre,
          datos_por_parametro |-> <<>>, timestamp |-> ""]
    ELSE [raised |-> FALSE, status_code |-> 200, estado |-> estado_nombre,
          datos_por_parametro |->
            [name \in DOMAIN estado_data.parametros |->
               [texto_analisis |-> estado_data.parametros[name].texto_analisis,
                datos_apis |-> estado_data.parametros[name].datos_apis]],
          timestamp |-> estado_data.id]

\* rag_service.py:25-61: the HTTPException for no view, or the record with
\* the parameters asked for (all of them when parametros is empty).
consulta_record(estado_data, estado_nombre, parametros) ==
  LET wanted == IF parametros = <<>> THEN DOMAIN estado_data.parametros
                ELSE {parametros[i] : i \in 1..Len(parametros)}
                       \cap DOMAIN estado_data.parametros
  IN  IF ~estado_data.found
        THEN [raised |-> TRUE, status_code |-> 404, estado |-> estado_nombre,
              datos_por_parametro |-> <<>>, timestamp |-> ""]
        ELSE [raised |-> FALSE, status_code |-> 200, estado |-> estado_nombre,
              datos_por_parametro |->
                [name \in wanted |->
                   [texto_analisis |-> estado_data.parametros[name].texto_analisis,
                    datos_apis |-> estado_data.parametros[name].datos_apis]],
              timestamp |-> estado_data.id]

\* RAGService.consulta_estado_con_rag(estado_nombre, parametros) without a
\* pregunta: the record, or the HTTPException raised.  parametros = <<>> is
\* the call without a parameter list.
consulta_estado_con_rag(estado_nombre, parametros, world) ==
  consulta_record(obtener_datos_estado_completo(estado_nombre, world),
                  estado_nombre, parametros)

\* RAGAgent.generar_respuesta_rag: the `error` of the record it returns ("":
\* none).  openai: the client is "unconfigured", or its completion is "ok" or
\* "raises".
generar_respuesta_rag(estado_nombre, world, openai) ==
  IF openai = "unconfigured" THEN [error |-> "OpenAI no configurado"]
  ELSE IF ~obtener_datos_estado_completo(estado_nombre, world).found
    THEN [error |-> "Estado no encontrado"]
  ELSE IF openai = "raises" THEN [error |-> "Error interno"]
  ELSE [error |-> ""]

\* RAGAgent.obtener_resumen_estado
obtener_resumen_estado(estado_nombre, world) ==
  IF ~obtener_datos_estado_completo(estado_nombre, world).found
    THEN [error |-> "Estado no encontrado"]
    ELSE [error |-> ""]

\* rag_agent.consultar_estado_rag: with a pregunta the answer, without one
\* the summary.
consultar_estado_rag(estado_nombre, pregunta, world, openai) ==
  IF pregunta THEN generar_respuesta_rag(estado_nombre, world, openai)
  ELSE obtener_resumen_estado(estado_nombre, world)

\* The status a lookup answers with: 200, or that of the HTTPException.
http(status_code, detail) ==
  [status_code |-> status_code, detail |-> detail]

\* `if respuesta_rag.get('error'): raise HTTPException(status_code=..., detail=...)`
raise_for_error(record, status_code) ==
  IF record.error # "" THEN http(status_code, record.error) ELSE http(200, "")

\* RAGService.consulta_ia_estado
consulta_ia_estado(estado_nombre, pregunta, world, openai) ==
  raise_for_error(consultar_estado_rag(estado_nombre, pregunta, world, openai), 400)

\* RAGService.obtener_resumen_estado_rag
obtener_resumen_estado_rag(estado_nombre, world) ==
  raise_for_error(obtener_resumen_estado(estado_nombre, world), 404)

\* rag_endpoints.obtener_parametros_estado (GET /estado/{estado_nombre}/parametros)
obtener_parametros_estado(estado_nombre, world) ==
  IF ~obtener_datos_estado_completo(estado_nombre, world).found
    THEN http(404, "Estado no encontrado")
    ELSE http(200, "")

\* rag_tools.py:190-191
todos_estados ==
  <<
    <<"j","a","l","i","s","c","o">>,
    <<"n","u","e","v","o"," ","l","e","o","n">>,
    <<"c","i","u","d","a","d"," ","d","e"," ","m","e","x","i","c","o">>,
    <<"q","u","e","r","e","t","a","r","o">>,
    <<"y","u","c","a","t","a","n">>,
    <<"q","u","i","n","t","a","n","a"," ","r","o","o">>,
    <<"b","a","j","a"," ","c","a","l","i","f","o","r","n","i","a">>,
    <<"s","o","n","o","r","a">>,
    <<"c","h","i","h","u","a","h","u","a">>,
    <<"c","o","a","h","u","i","l","a">>
  >>

\* rag_tools.py:194: the states other than the reference.
estados_a_comparar(estado_referencia) ==
  SelectSeq(todos_estados, LAMBDA e : e # lower(estado_referencia))

\* A variant that iterates over the filtered list of states.
candidates_filtered(filtered, estados_similares) ==
  take(filtered, 5)

\* rag_tools.py:197-198: the list the loop iterates over is
\* estados_similares[:5], the list it has just made empty.
candidates(filtered, estados_similares) ==
  take(estados_similares, 5)

\* rag_tools.py:199-213, one turn of the loop: the state is aggregated and
\* appended, or skipped when its aggregation raised.
with_similar(before, estado, record) ==
  [estados_similares |->
     IF record.raised THEN before.estados_similares
     ELSE Append(before.estados_similares,
                 [estado |-> estado, similitud_score |-> 7, datos |-> record]),
   aggregations |-> before.aggregations + 1]

RECURSIVE similares_upto(_, _, _, _)
similares_upto(estados, n, parametro, world) ==
  IF n = 0 THEN [estados_similares |-> <<>>, aggregations |-> 0]
  ELSE with_similar(similares_upto(estados, n - 1, parametro, world), estados[n],
                    consulta_estado_con_rag(estados[n], <<parametro>>, world))

\* rag_tools.py:215-232: the dictionary returned.  `aggregations` is ghost:
\* the calls of consulta_estado_con_rag made.
similares_result(reference, found) ==
  IF reference.raised
    THEN [success |-> FALSE, estados_similares |-> <<>>, aggregations |-> 1]
    ELSE [success |-> TRUE, estados_similares |-> found.estados_similares,
          aggregations |-> 1 + found.aggregations]

\* rag_tools.buscar_estados_similares
buscar_estados_similares(estado_referencia, parametro, world) ==
  similares_result(
    consulta_estado_con_rag(estado_referencia, <<parametro>>, world),
    similares_upto(candidates(estados_a_comparar(estado_referencia), <<>>),
                   Len(candidates(estados_a_comparar(estado_referencia), <<>>)),
                   parametro, world))

\* The status consulta_estado_con_rag answers with.
consulta_status(record) ==
  http(record.status_code, IF record.raised THEN "No se encontraron datos" ELSE "")

\* The lookups about one state, by name, and what each answers.
LookupEndpoints ==
  {"consulta_estado_con_rag", "consulta_ia_estado", "obtener_resumen_estado_rag",
   "obtener_parametros_estado"}

lookup(endpoint, estado_nombre, parametros, pregunta, world, openai) ==
  CASE endpoint = "consulta_estado_con_rag" ->
         consulta_status(consulta_estado_con_rag(estado_nombre, parametros, world))
    [] endpoint = "consulta_ia_estado" ->
         consulta_ia_estado(estado_nombre, pregunta, world, openai)
    [] endpoint = "obtener_resumen_estado_rag" ->
         obtener_resumen_estado_rag(estado_nombre, world)
    [] endpoint = "obtener_parametros_estado" ->
         obtener_parametros_estado(estado_nombre, world)

-----------------------------------------------------------------------------
(* Chat-completion provider client *)

\* What the HTTP POST to the provider can do.
\*   ok          200, a completion whose choices[0].message.content is text
\*   ok_table    200, a completion whose content holds a markdown table
\*   null        200, a completion whose content is null
\*   no_choices  200, a JSON object without "choices"
\*   not_object  200, a JSON body that is not an object (null)
\*   status      a non-2xx status
\*   connection  the POST raises (connection failure, timeout, invalid JSON)
ProviderOutcomes ==
  {"ok", "ok_table", "null", "no_choices", "not_object", "status", "connection"}

ProviderText ==
  "Segun los datos RAG actualizados, la situacion es estable."

ProviderTable ==
  "| Estado | Indice |\n| Jalisco | 0.7 |"

\* The outcomes of the calls of the client on its own: those above, and a
\* second non-2xx status.
ClientOutcomes ==
  ProviderOutcomes \cup {"rate_limited"}

\* The HTTP exchange of an outcome: whether the POST or the read of the body
\* raises, and else the status and the body text of the response.
exchange(outcome) ==
  CASE outcome = "connection" ->
         [raises |-> TRUE, status |-> 0, text |-> "Cannot connect to host"]
    [] outcome = "status" ->
         [raises |-> FALSE, status |-> 500, text |-> "Internal Server Error"]
    [] outcome = "rate_limited" ->
         [raises |-> FALSE, status |-> 429, text |-> "Too Many Requests"]
    [] OTHER ->
         [raises |-> FALSE, status |-> 200, text |-> "{...}"]

\* A value chat_completion returns: the parsed JSON body (cerebras_client.py:72).
json_body(kind, keys, content_is_str, content) ==
  [raised |-> FALSE, kind |-> kind, keys |-> keys, error |-> "", details |-> "",
   content_is_str |-> content_is_str, content |-> content]

\* A variant that raises the failure instead of returning it.
failure_raised(error, details) ==
  [raised |-> TRUE, kind |-> "dict", keys |-> {"error", "details"},
   error |-> error, details |-> details, content_is_str |-> FALSE, content |-> ""]

\* A value chat_completion returns: {"error": ..., "details": ...}
\* (cerebras_client.py:77-80 and 84-87).
failure(error, details) ==
  [raised |-> FALSE, kind |-> "dict", keys |-> {"error", "details"},
   error |-> error, details |-> details, content_is_str |-> FALSE, content |-> ""]

\* CerebrasClient.chat_completion: the value returned.  The whole body is in
\* a try whose except returns a failure value; with stream=True a 200 leads
\* to `await` of an async generator, a TypeError that this except catches.
chat_completion(stream, outcome) ==
  LET response == exchange(outcome)
  IN  IF response.raises THEN failure("Connection Error", response.text)
      ELSE IF response.status = 200
        THEN IF stream
               THEN failure("Connection Error",
                            "object async_generator can't be used in 'await' expression")
               ELSE CASE outcome = "ok" -> json_body("dict", {"choices"}, TRUE, ProviderText)
                      [] outcome = "ok_table" -> json_body("dict", {"choices"}, TRUE, ProviderTable)
                      [] outcome = "null" -> json_body("dict", {"choices"}, FALSE, "")
                      [] outcome = "no_choices" -> json_body("dict", {"id"}, FALSE, "")
                      [] outcome = "not_object" -> json_body("null", {}, FALSE, "")
        ELSE failure("API Error: " \o ToString(response.status), response.text)

\* The lines of a streamed 200 body, as response.content gives them.
\*   delta      data: {"choices": [{"delta": {"content": <content>}}]}
\*   blank      an empty line
\*   comment    a line that does not start with "data: "
\*   bad_json   data: followed by text that is not JSON
\*   done       data: [DONE], the terminating sentinel
\*   null_json  data: null, JSON that is not an object
stream_line(kind, content) ==
  [kind |-> kind, content |-> content]

Streams ==
  { << stream_line("delta", "Hola"), stream_line("blank", ""),
       stream_line("delta", " mundo"), stream_line("done", "") >>,
    << stream_line("delta", "A"), stream_line("bad_json", ""),
       stream_line("delta", ""), stream_line("comment", ""),
       stream_line("delta", "B"), stream_line("done", "") >>,
    << stream_line("delta", "A"), stream_line("null_json", ""),
       stream_line("delta", "B"), stream_line("done", "") >> }

\* cerebras_client.py:93-104, one turn of the loop over the lines: a delta
\* with content is yielded; json.JSONDecodeError is skipped (the sentinel
\* [DONE] is no JSON either); `'choices' in data` raises TypeError when the
\* JSON is null, and nothing catches it.
after_line(before, line) ==
  IF before.raised THEN before
  ELSE IF line.kind = "delta" /\ line.content # ""
    THEN [before EXCEPT !.chunks = Append(@, line.content)]
  ELSE IF line.kind = "null_json" THEN [before EXCEPT !.raised = TRUE]
  ELSE before

\* CerebrasClient._handle_stream_response over the first n lines: the chunks
\* yielded, and whether the generator raised.
RECURSIVE handle_stream_response(_, _)
handle_stream_response(lines, n) ==
  IF n = 0 THEN [raised |-> FALSE, kind |-> "stream", chunks |-> <<>>]
  ELSE after_line(handle_stream_response(lines, n - 1), lines[n])

\* cerebras_client.py:188-195: the chunks of a 200, or one error text.
streamed(response, lines) ==
  IF response.status = 200 THEN handle_stream_response(lines, Len(lines))
  ELSE [raised |-> FALSE, kind |-> "stream",
        chunks |-> <<"Error: " \o ToString(response.status) \o " - " \o response.text>>]

\* CerebrasClient.generate_streaming_response: what the generator yields.
\* It has no try: a failure of the POST raises out of it.
generate_streaming_response(outcome, lines) ==
  IF exchange(outcome).raises
    THEN [raised |-> TRUE, kind |-> "stream", chunks |-> <<>>]
    ELSE streamed(exchange(outcome), lines)

\* CerebrasClient.generate_response: the text returned, or an exception.
\* `"error" in response` raises TypeError when the body is not an object;
\* only KeyError and IndexError are caught around the content lookup.
generate_response(outcome) ==
  LET response == chat_completion(FALSE, outcome)
  IN  IF response.kind # "dict"
        THEN [raised |-> TRUE, is_str |-> FALSE, text |-> ""]
        ELSE IF "error" \in response.keys
          THEN [raised |-> FALSE, is_str |-> TRUE, text |-> "Error: " \o response.error]
          ELSE IF "choices" \notin response.keys
            THEN [raised |-> FALSE, is_str |-> TRUE,
                  text |-> "Error: No se pudo obtener la respuesta"]
            ELSE [raised |-> FALSE, is_str |-> response.content_is_str,
                  text |-> response.content]

-----------------------------------------------------------------------------
(* Chat requests *)

\* "?'Cua'l es la situacio'n de seguridad en Jalisco?"
MsgSeguridadJalisco ==
  <<"?'","C","u","a'","l"," ","e","s"," ","l","a"," ","s","i","t","u","a","c","i","o'","n"," ","d","e"," ","s","e","g","u","r","i","d","a","d"," ","e","n"," ","J","a","l","i","s","c","o","?">>

\* "?'Co'mo esta' la economi'a en Estados Unidos?"
MsgEstadosUnidos ==
  <<"?'","C","o'","m","o"," ","e","s","t","a'"," ","l","a"," ","e","c","o","n","o","m","i'","a"," ","e","n"," ","E","s","t","a","d","o","s"," ","U","n","i","d","o","s","?">>

\* "?'Que' me puedes decir sobre Me'xico?"
MsgSobreMexico ==
  <<"?'","Q","u","e'"," ","m","e"," ","p","u","e","d","e","s"," ","d","e","c","i","r"," ","s","o","b","r","e"," ","M","e'","x","i","c","o","?">>

\* "economi'a y seguridad de Sonora"
MsgEconomiaSonora ==
  <<"e","c","o","n","o","m","i'","a"," ","y"," ","s","e","g","u","r","i","d","a","d"," ","d","e"," ","S","o","n","o","r","a">>

\* "datos de Sonora"
MsgDatosSonora ==
  <<"d","a","t","o","s"," ","d","e"," ","S","o","n","o","r","a">>

\* "hola"
MsgHola ==
  <<"h","o","l","a">>

\* "comparar datos de Jalisco vs Sonora"
MsgCompararDatos ==
  <<"c","o","m","p","a","r","a","r"," ","d","a","t","o","s"," ","d","e"," ","J","a","l","i","s","c","o"," ","v","s"," ","S","o","n","o","r","a">>

\* "mi estado"
MsgEstado ==
  <<"m","i"," ","e","s","t","a","d","o">>

\* "estado similar"
MsgEstadoSimilar ==
  <<"e","s","t","a","d","o"," ","s","i","m","i","l","a","r">>

user(text) ==
  [role |-> "user", content |-> text]

assistant(text) ==
  [role |-> "assistant", content |-> text]

\* The message lists sent in the chat requests of Spec.
ChatInputs ==
  { <<>>,
    <<user(MsgSeguridadJalisco)>>,
    <<user(MsgEstadosUnidos)>>,
    <<user(MsgEconomiaSonora)>>,
    <<user(MsgDatosSonora)>>,
    <<user(MsgHola)>>,
    <<user(MsgCompararDatos)>>,
    <<user(MsgSobreMexico), assistant(MsgHola)>> }

\* context.current_state: absent (the empty text), a stored state, a state
\* the document store does not hold.
ContextStates ==
  {<<>>, StJalisco, StAtlantis}

EndpointSession ==
  "deepchat_mx32-user_1700000000"

AdvancedSession ==
  "deepchat_advanced_mx32-user_1700000000"

TestSession ==
  "test_session_1"

Sessions ==
  {"default", EndpointSession, AdvancedSession, TestSession}

\* How a request enters: <<agent, entry point, user_context.session_id>>.
\* A direct call of SimpleRAGAgent without session id, the /deepchat/chat
\* endpoint (deepchat_endpoints.py:143 makes the session id), the
\* /deepchat/chat-advanced endpoint (line 243), and a direct call of
\* RAGLangChainAgent as in tests/test_langchain_integration.py.
Entries ==
  { <<"simple", "direct", "">>,
    <<"simple", "chat", EndpointSession>>,
    <<"simple", "chat_advanced", AdvancedSession>>,
    <<"langchain", "direct", TestSession>> }

Call(entry, messages, rag_enabled, current_state) ==
  [agent |-> entry[1], via |-> entry[2], session_id |-> entry[3],
   messages |-> messages, rag_enabled |-> rag_enabled,
   current_state |-> current_state]

ChatCalls ==
  { Call(e, ms, f, cs) :
      e \in Entries, ms \in ChatInputs, f \in BOOLEAN, cs \in ContextStates }

-----------------------------------------------------------------------------
(* Envelopes (ChatResponseStructured) *)

ApologyText ==
  "Lo siento, ocurrio un error al procesar tu consulta. Por favor, intentalo de nuevo."

\* An item of suggested_actions or follow_up_questions: the text, and the
\* state name an f-string puts into it (empty for a fixed text).
item(text) ==
  <<text, <<>>>>

item_of(text, state) ==
  <<text, state>>

NoEnvelope ==
  [response |-> "", confidence |-> 0, sources |-> <<>>,
   suggested_actions |-> <<>>, follow_up_questions |-> <<>>,
   session_id |-> "", memory_used |-> FALSE, rag_enabled |-> FALSE,
   intent |-> "", path |-> "none"]

\* user_context.session_id or "default"
session_or_default(session_id) ==
  IF session_id = "" THEN "default" ELSE session_id

\* simple_rag_agent.py:110-129 (rag_langchain_agent.py:350-369)
restriction_envelope(restriction_message, session_id) ==
  [response |-> restriction_message, confidence |-> 10,
   sources |-> <<"Sistema de restricciones MX32">>,
   suggested_actions |->
     << item("Ver datos de estados mexicanos"),
        item("Explorar parametros disponibles"),
        item("Consultar informacion de seguridad"),
        item("Analizar datos economicos") >>,
   follow_up_questions |->
     << item("Sobre que estado de Mexico te gustaria saber?"),
        item("Que parametro te interesa analizar?"),
        item("Te gustaria ver una comparacion entre estados?") >>,
   session_id |-> session_or_default(session_id), memory_used |-> TRUE,
   rag_enabled |-> FALSE, intent |-> "", path |-> "refusal"]

\* simple_rag_agent.py:249-258 (rag_langchain_agent.py:408-417): the outer
\* except of process_chat_with_rag.
error_envelope(session_id) ==
  [response |-> ApologyText, confidence |-> 0, sources |-> <<>>,
   suggested_actions |-> <<>>, follow_up_questions |-> <<>>,
   session_id |-> session_or_default(session_id), memory_used |-> FALSE,
   rag_enabled |-> FALSE, intent |-> "", path |-> "error"]

\* simple_rag_agent.py:200-212, RAGLangChainAgent._generate_suggested_actions
\* before its cut to five.
suggested_actions_for(current_state, entities) ==
  (IF current_state # <<>>
     THEN << item_of("Ver datos completos de {}", current_state),
             item_of("Comparar {} con otros estados", current_state) >>
     ELSE <<>>)
  \o (IF in_list(KwSeguridad, entities)
        THEN << item("Ver analisis detallado de seguridad"),
                item("Comparar indicadores de seguridad") >>
        ELSE <<>>)
  \o (IF in_list(KwEconomia, entities) \/ in_list(KwEconomiaAcento, entities)
        THEN << item("Analizar indicadores economicos"),
                item("Ver datos de empleo") >>
        ELSE <<>>)

\* simple_rag_agent.py:214-221, RAGLangChainAgent._generate_follow_up_questions
\* before its cut to three.
follow_up_questions_for(current_state, entities) ==
  (IF current_state # <<>>
     THEN << item_of("Te gustaria comparar {} con otros estados?", current_state),
             item_of("Que otros parametros te interesan de {}?", current_state) >>
     ELSE <<>>)
  \o (IF in_list(KwSeguridad, entities)
        THEN << item("Te interesa analizar las tendencias de seguridad?") >>
        ELSE <<>>)

\* Settings in which the answer made with aggregated data has confidence 0.8.
with_rag_data_confidence_8(pc) ==
  IF pc = "await_llm_rag"
    THEN [rag_enabled |-> TRUE, confidence |-> 8,
          sources |-> <<"Base de datos MX32", "RAG Analysis", "Cerebras AI">>]
    ELSE [rag_enabled |-> FALSE, confidence |-> 8,
          sources |-> <<"Base de datos MX32", "Cerebras AI">>]

\* The three places of SimpleRAGAgent.process_chat_with_rag that await the
\* provider, and what each sets after it: lines 166-168, 180-182, 196-198.
path_result(pc) ==
  IF pc = "await_llm_rag"
    THEN [rag_enabled |-> TRUE, confidence |-> 9,
          sources |-> <<"Base de datos MX32", "RAG Analysis", "Cerebras AI">>]
    ELSE [rag_enabled |-> FALSE, confidence |-> 8,
          sources |-> <<"Base de datos MX32", "Cerebras AI">>]

\* simple_rag_agent.py:232-247
success_envelope(r, response_text) ==
  LET p == path_result(r.pc)
  IN  [response |-> response_text, confidence |-> p.confidence,
       sources |-> p.sources,
       suggested_actions |->
         take(suggested_actions_for(r.call.current_state, r.entities), 5),
       follow_up_questions |->
         take(follow_up_questions_for(r.call.current_state, r.entities), 3),
       session_id |-> r.session, memory_used |-> TRUE,
       rag_enabled |-> p.rag_enabled,
       intent |-> IF p.rag_enabled THEN "rag_analysis" ELSE "general_analysis",
       path |-> r.pc]

-----------------------------------------------------------------------------
(* Conversation memory of SimpleRAGAgent: Python list objects on a heap *)

\* `if len(conversation_memory) > 20` / `conversation_memory[-20:]`
Window ==
  20

\* The object id given to a list created now.
fresh_list(heap) ==
  CHOOSE l \in 1..(Cardinality(DOMAIN heap) + 1) : l \notin DOMAIN heap

\* The heap without the list objects nothing refers to any more: neither the
\* agent's dict nor a local variable of a coroutine in progress.
collected(heap, memory, requests) ==
  LET live == {memory[s] : s \in DOMAIN memory}
                \cup {requests[i].mem : i \in DOMAIN requests}
  IN  [l \in DOMAIN heap \cap live |-> heap[l]]

\* The entries of a turn with the assistant's entry put first.
turn_entries_assistant_first(r, id, response) ==
  << [role |-> "assistant", content |-> <<response.is_str, response.text>>,
      turn |-> Len(appended[r.session]) \div 2 + 1],
     [role |-> "user", content |-> r.user_message,
      turn |-> Len(appended[r.session]) \div 2 + 1] >>

\* The two entries a turn appends (simple_rag_agent.py:224-225); `turn` is
\* ghost: the turn's number among the turns appended for the session.  The
\* content of the assistant's entry is response_text: whether it is a string,
\* and the string.
turn_entries(r, id, response) ==
  << [role |-> "user", content |-> r.user_message,
        turn |-> Len(appended[r.session]) \div 2 + 1],
     [role |-> "assistant", content |-> <<response.is_str, response.text>>,
      turn |-> Len(appended[r.session]) \div 2 + 1] >>

\* A memory update that appends and never cuts.
update_memory_no_window(r, id, response) ==
  LET grown == lists[r.mem] \o turn_entries(r, id, response)
  IN  [heap |-> [lists EXCEPT ![r.mem] = grown],
       memory |-> conversation_memory]

\* A memory update whose cut keeps one entry less than the window.
update_memory_odd_cut(r, id, response) ==
  LET grown == lists[r.mem] \o turn_entries(r, id, response)
      appended_to == [lists EXCEPT ![r.mem] = grown]
  IN  IF Len(grown) > Window
        THEN LET l == fresh_list(appended_to)
             IN  [heap |-> appended_to @@ (l :> last(grown, Window - 1)),
                  memory |-> (r.session :> l) @@ conversation_memory]
        ELSE [heap |-> appended_to, memory |-> conversation_memory]

\* simple_rag_agent.py:223-230.  The appends change the list object the local
\* variable refers to; the cut makes a new list object and stores it in the
\* dict under the session id.
update_memory(r, id, response) ==
  LET grown == lists[r.mem] \o turn_entries(r, id, response)
      appended_to == [lists EXCEPT ![r.mem] = grown]
  IN  IF Len(grown) > Window
        THEN LET l == fresh_list(appended_to)
             IN  [heap |-> appended_to @@ (l :> last(grown, Window)),
                  memory |-> (r.session :> l) @@ conversation_memory]
        ELSE [heap |-> appended_to, memory |-> conversation_memory]

-----------------------------------------------------------------------------
(* The /deepchat/chat endpoint around the agent *)

NoBody ==
  [key |-> "none", content |-> "", from_envelope |-> FALSE,
   confidence |-> 0, sources |-> <<>>, rag_enabled |-> FALSE, session_id |-> ""]

text_body(text) ==
  [key |-> "text", content |-> text, from_envelope |-> FALSE,
   confidence |-> 0, sources |-> <<>>, rag_enabled |-> FALSE, session_id |-> ""]

\* deepchat_endpoints.py:170-171: the response holds a markdown marker or <br>.
has_markdown(text) ==
  text = ProviderTable

\* What convert_markdown_table_to_html and then convert_markdown_to_html
\* (deepchat_endpoints.py:24-86) make of ProviderTable: the rows in a table
\* element, every line break a <br>.
ProviderTableHtml ==
  "<div class='table-responsive'><br><table class='table table-striped table-bordered'><br><tr><td class='table-cell-content'>Estado</td><td class='table-cell-content'>Indice</td></tr><br><tr><td class='table-cell-content'>Jalisco</td><td class='table-cell-content'>0.7</td></tr><br></table><br></div>"

\* deepchat_endpoints.py:173-181 on the texts of the model.
convert_markdown_to_html(text) ==
  IF text = ProviderTable THEN ProviderTableHtml ELSE text

\* deepchat_endpoints.py:166-209: the body made from the agent's envelope.
endpoint_body(envelope) ==
  [key |-> IF has_markdown(envelope.response) THEN "html" ELSE "text",
   content |-> IF has_markdown(envelope.response)
                 THEN convert_markdown_to_html(envelope.response)
                 ELSE envelope.response,
   from_envelope |-> TRUE,
   confidence |-> envelope.confidence, sources |-> envelope.sources,
   rag_enabled |-> envelope.rag_enabled, session_id |-> envelope.session_id]

\* The text both endpoints answer from their `except Exception`
\* (deepchat_endpoints.py:211-213, 321-323).
EndpointApology ==
  "Lo siento, ocurrio un error al procesar tu consulta."

\* simple_rag_agent.py:242-246: the envelope of an answer has entity_data, a
\* dict (models/chatbot.py:107); the refusal and the error envelope have none.
\* Its "intent" is the envelope's intent here.
entity_data_set(envelope) ==
  envelope.intent # ""

\* deepchat_endpoints.py:281-319: the body of /deepchat/chat-advanced.
\* `response.entity_data.dict() if response.entity_data else None` asks a
\* dict for an attribute it does not have: AttributeError, caught at line 321.
advanced_endpoint_body(envelope) ==
  IF entity_data_set(envelope)
    THEN text_body(EndpointApology)
    ELSE endpoint_body(envelope)

\* The entry points that are HTTP endpoints.
through_endpoint(call) ==
  call.via \in {"chat", "chat_advanced"}

\* The body a request gets for the envelope of the agent.
body_of(call, envelope) ==
  CASE call.via = "chat" -> endpoint_body(envelope)
    [] call.via = "chat_advanced" -> advanced_endpoint_body(envelope)
    [] OTHER -> NoBody

-----------------------------------------------------------------------------
(* SimpleRAGAgent.process_chat_with_rag *)

RagPc ==
  "await_rag"

ProviderPcs ==
  {"await_llm_rag", "await_llm_fallback", "await_llm"}

\* messages[-1] if messages else {"role": "user", "content": ""}
last_message(messages) ==
  IF Len(messages) > 0 THEN messages[Len(messages)] ELSE user(<<>>)

\* The aggregator asked whenever the rag flag is set, whatever the message.
use_rag_for_flag_only(call, user_message) ==
  call.rag_enabled

\* simple_rag_agent.py:139-141
use_rag_for(call, user_message) ==
  call.rag_enabled /\ any_keyword_in(rag_keywords, lower(user_message))

\* An aggregation of the state the message names, when it names Sonora.
estado_named_in_message(call, user_message) ==
  IF contains(StSonora, lower(user_message)) THEN StSonora
  ELSE IF call.current_state # <<>> THEN call.current_state ELSE StJalisco

\* simple_rag_agent.py:145, rag_langchain_agent.py:423:
\* `estado = user_context.current_state or "jalisco"`
estado_for(call, user_message) ==
  IF call.current_state # <<>> THEN call.current_state ELSE StJalisco

\* The coroutine of one call of process_chat_with_rag: its arguments, where
\* it stands, its local variables, and what it returned.  Ghost: the number
\* of aggregator and provider calls it made, how its aggregation ended
\* ("none", "ok", "raised"), the outcomes of its provider calls in order, and
\* whether an exception left it.
NewRequest(call) ==
  [call |-> call, pc |-> "new", user_message |-> last_message(call.messages).content,
   session |-> session_or_default(call.session_id), mem |-> 0, entities |-> <<>>,
   intent |-> "", estado |-> <<>>, agg_calls |-> 0, llm_calls |-> 0,
   aggregation |-> "none", provider |-> <<>>,
   envelope |-> NoEnvelope, body |-> NoBody, escaped |-> FALSE]

\* The coroutine returns `envelope` to its caller; called through the
\* endpoint, the endpoint makes its body from it in the same step.
returned(r, envelope) ==
  [r EXCEPT !.pc = "returned", !.mem = 0, !.envelope = envelope,
            !.body = body_of(r.call, envelope)]

\* process_chat_with_rag without its outer except: the exception leaves it.
outer_except_missing(r, heap, memory) ==
  [request |-> [r EXCEPT !.pc = "returned", !.mem = 0, !.escaped = TRUE],
   heap |-> heap, memory |-> memory]

\* The outer `except Exception` of process_chat_with_rag (lines 249-258).
outer_except(r, heap, memory) ==
  [request |-> returned(r, error_envelope(r.call.session_id)),
   heap |-> heap, memory |-> memory]

\* simple_rag_agent.py:109-129: the refusal, returned before the memory, the
\* aggregator or the provider is touched.
refuse(r, verdict) ==
  [request |-> returned(r, restriction_envelope(verdict[2], r.call.session_id)),
   heap |-> lists, memory |-> conversation_memory]

\* simple_rag_agent.py:131-147: the memory of the session (made on its first
\* message), the entities, and whether the aggregator is asked first.
proceed(r) ==
  LET known == r.session \in DOMAIN conversation_memory
      l == IF known THEN conversation_memory[r.session] ELSE fresh_list(lists)
      use_rag == use_rag_for(r.call, r.user_message)
  IN  [request |->
         [r EXCEPT !.mem = l,
                   !.entities = extract_entities_from_message(r.user_message),
                   !.estado = IF ~use_rag THEN <<>>
                              ELSE estado_for(r.call, r.user_message),
                   !.pc = IF use_rag THEN RagPc ELSE "await_llm"],
       heap |-> IF known THEN lists ELSE lists @@ (l :> <<>>),
       memory |-> IF known THEN conversation_memory
                  ELSE (r.session :> l) @@ conversation_memory]

\* A beginning that lets the rag flag bypass the guard.
simple_begin_guard_only_without_rag(r) ==
  LET verdict == check_mexico_restriction(r.user_message)
  IN  IF ~verdict[1] /\ ~r.call.rag_enabled THEN refuse(r, verdict) ELSE proceed(r)

\* simple_rag_agent.py:102-147: from the call to the first await.
simple_begin(r) ==
  LET verdict == check_mexico_restriction(r.user_message)
  IN  IF ~verdict[1] THEN refuse(r, verdict) ELSE proceed(r)

\* deepchat_endpoints.py:129-134, 229-234: the endpoint answers by itself,
\* without the agent, when there is no message or the last one is not the
\* user's.
endpoint_rejects(call) ==
  through_endpoint(call)
    /\ (Len(call.messages) = 0 \/ last_message(call.messages).role # "user")

endpoint_answer(r) ==
  [r EXCEPT !.pc = "returned",
            !.body = IF Len(r.call.messages) = 0
                       THEN text_body("No se recibio ningun mensaje")
                       ELSE text_body("El ultimo mensaje debe ser del usuario")]

\* A chat request arrives and runs to its first suspension point.
SimpleStart(calls, limit, tasks) ==
  /\ nextId <= limit
  /\ Cardinality(DOMAIN req) < tasks
  /\ \E call \in calls :
       /\ call.agent = "simple"
       /\ LET r == NewRequest(call)
              b == simple_begin(r)
          IN  IF endpoint_rejects(call)
                THEN /\ req' = (nextId :> endpoint_answer(r)) @@ req
                     /\ UNCHANGED <<conversation_memory, lists>>
                ELSE /\ req' = (nextId :> b.request) @@ req
                     /\ conversation_memory' = b.memory
                     /\ lists' = collected(b.heap, b.memory, req')
  /\ nextId' = nextId + 1
  /\ UNCHANGED <<fn_message, fn_verdict, fn_call, fn_log, appended, lc_memory, lc_entity,
                 loop_tasks, loop_thread>>

\* An aggregation whose failure is ignored: the RAG branch goes on.
after_aggregation_ignores_failure(r, rag_data) ==
  [r EXCEPT !.agg_calls = @ + 1,
            !.aggregation = IF rag_data.raised THEN "raised" ELSE "ok",
            !.pc = "await_llm_rag"]

\* The aggregator call of line 147 returns or raises.  An exception (the
\* HTTPException of a state that is not found) is caught at line 170 and the
\* request goes on to the fallback provider call of line 174.
after_aggregation(r, rag_data) ==
  [r EXCEPT !.agg_calls = @ + 1,
            !.aggregation = IF rag_data.raised THEN "raised" ELSE "ok",
            !.pc = IF rag_data.raised THEN "await_llm_fallback" ELSE "await_llm_rag"]

SimpleAggregatorReturns ==
  \E id \in DOMAIN req, world \in ChatWorlds :
    /\ req[id].call.agent = "simple"
    /\ req[id].pc = RagPc
    /\ req' = [req EXCEPT ![id] =
                 after_aggregation(@, consulta_estado_con_rag(@.estado, <<>>, world))]
    /\ UNCHANGED <<fn_message, fn_verdict, fn_call, fn_log, nextId, conversation_memory, lists,
                   appended, lc_memory, lc_entity, loop_tasks, loop_thread>>

\* simple_rag_agent.py:159-258 after a provider call returns `response`:
\* the request's next state, the heap, the dict, and the entries appended.
\* An exception of the call in the RAG branch is caught at line 170 (a second
\* call follows); elsewhere it reaches the outer except.  A text is taken as
\* the answer whatever it says; the envelope's validation refuses a response
\* that is not a string, after the memory was updated.
after_provider(r, id, response) ==
  IF response.raised
    THEN IF r.pc = "await_llm_rag"
           THEN [request |-> [r EXCEPT !.pc = "await_llm_fallback"],
                 heap |-> lists, memory |-> conversation_memory, entries |-> <<>>]
           ELSE outer_except(r, lists, conversation_memory) @@ [entries |-> <<>>]
    ELSE LET m == update_memory(r, id, response)
         IN  (IF response.is_str
                THEN [request |-> returned(r, success_envelope(r, response.text)),
                      heap |-> m.heap, memory |-> m.memory]
                ELSE outer_except(r, m.heap, m.memory))
             @@ [entries |-> turn_entries(r, id, response)]

SimpleProviderReturns(outcomes) ==
  \E id \in DOMAIN req, outcome \in outcomes :
    /\ req[id].call.agent = "simple"
    /\ req[id].pc \in ProviderPcs
    /\ LET r == [req[id] EXCEPT !.llm_calls = @ + 1,
                                !.provider = Append(@, outcome)]
           a == after_provider(r, id, generate_response(outcome))
       IN  /\ req' = [req EXCEPT ![id] = a.request]
           /\ conversation_memory' = a.memory
           /\ lists' = collected(a.heap, a.memory, req')
           /\ appended' = [appended EXCEPT ![r.session] = @ \o a.entries]
    /\ UNCHANGED <<fn_message, fn_verdict, fn_call, fn_log, nextId, lc_memory, lc_entity,
                 loop_tasks, loop_thread>>

\* The caller has the envelope (the HTTP client its body): the request is over.
Deliver ==
  \E id \in DOMAIN req :
    /\ req[id].pc = "returned"
    /\ req' = [i \in DOMAIN req \ {id} |-> req[i]]
    /\ UNCHANGED <<fn_message, fn_verdict, fn_call, fn_log, nextId, conversation_memory, lists,
                   appended, lc_memory, lc_entity, loop_tasks, loop_thread>>

-----------------------------------------------------------------------------
(* RAGLangChainAgent *)

comparison_keywords ==
  <<
    <<"c","o","m","p","a","r","a","r">>,
    <<"c","o","m","p","a","r","a","c","i","o'","n">>,
    <<"v","s">>,
    <<"v","e","r","s","u","s">>
  >>

trend_keywords ==
  <<
    <<"t","e","n","d","e","n","c","i","a">>,
    <<"h","i","s","t","o'","r","i","c","o">>,
    <<"e","v","o","l","u","c","i","o'","n">>,
    <<"c","a","m","b","i","o">>
  >>

recommendation_keywords ==
  <<
    <<"r","e","c","o","m","e","n","d","a","c","i","o'","n">>,
    <<"s","u","g","e","r","e","n","c","i","a">>,
    <<"q","u","e'"," ","h","a","c","e","r">>
  >>

similar_keywords ==
  <<
    <<"s","i","m","i","l","a","r">>,
    <<"p","a","r","e","c","i","d","o">>,
    <<"c","o","m","o">>
  >>

rag_intent_keywords ==
  <<
    <<"r","a","g">>,
    <<"d","a","t","o","s">>,
    <<"f","i","r","e","b","a","s","e">>,
    <<"a","n","a'","l","i","s","i","s">>
  >>

\* A variant that tests the trend keywords before the comparison keywords.
determine_intent_trend_first(message) ==
  LET message_lower == lower(message)
  IN  IF any_keyword_in(trend_keywords, message_lower) THEN "trend_analysis"
      ELSE IF any_keyword_in(comparison_keywords, message_lower) THEN "comparison"
      ELSE IF any_keyword_in(recommendation_keywords, message_lower) THEN "recommendations"
      ELSE IF any_keyword_in(similar_keywords, message_lower) THEN "similar_states"
      ELSE IF any_keyword_in(rag_intent_keywords, message_lower) THEN "rag_analysis"
      ELSE "general_analysis"

\* RAGLangChainAgent._determine_intent
determine_intent(message) ==
  LET message_lower == lower(message)
  IN  IF any_keyword_in(comparison_keywords, message_lower) THEN "comparison"
      ELSE IF any_keyword_in(trend_keywords, message_lower) THEN "trend_analysis"
      ELSE IF any_keyword_in(recommendation_keywords, message_lower) THEN "recommendations"
      ELSE IF any_keyword_in(similar_keywords, message_lower) THEN "similar_states"
      ELSE IF any_keyword_in(rag_intent_keywords, message_lower) THEN "rag_analysis"
      ELSE "general_analysis"

StubIntents ==
  {"comparison", "trend_analysis", "recommendations", "similar_states"}

\* The envelopes built with the defaults of ChatResponseStructured
\* (models/chatbot.py:109-118) for the fields they do not give.
plain_envelope(text, confidence, source, session_id, intent, path) ==
  [response |-> text, confidence |-> confidence, sources |-> <<source>>,
   suggested_actions |-> <<>>, follow_up_questions |-> <<>>,
   session_id |-> session_or_default(session_id), memory_used |-> FALSE,
   rag_enabled |-> FALSE, intent |-> intent, path |-> path]

\* The four handlers answering with confidence 0.8.
stub_envelope_confidence_8(intent, session_id) ==
  plain_envelope("Funcionalidad en desarrollo...", 8,
                 "Base de datos MX32", session_id, intent, "stub")

\* _handle_comparison_intent, _handle_trend_analysis_intent,
\* _handle_recommendations_intent, _handle_similar_states_intent
\* (rag_langchain_agent.py:526-568): the four answer alike, each naming its
\* feature in the text.
stub_envelope(intent, session_id) ==
  plain_envelope("Funcionalidad en desarrollo...", 7,
                 "Base de datos MX32", session_id, intent, "stub")

\* The except of _handle_rag_analysis_intent (lines 466-475).
rag_handler_error(session_id) ==
  plain_envelope("Lo siento, no pude acceder a los datos RAG en este momento.", 5,
                 "Sistema RAG", session_id, "", "handler_error")

\* The except of _handle_general_analysis_intent (lines 515-524).
general_handler_error(session_id) ==
  plain_envelope("Lo siento, ocurrio un error al procesar tu consulta.", 5,
                 "Sistema de analisis", session_id, "", "handler_error")

\* rag_langchain_agent.py:441-464 and 495-513
handler_envelope(r, response_text) ==
  LET rag == r.pc = "lc_await_llm_rag"
  IN  [response |-> response_text, confidence |-> IF rag THEN 9 ELSE 8,
       sources |-> IF rag
                     THEN <<"Base de datos MX32", "RAG Analysis", "Cerebras AI">>
                     ELSE <<"Base de datos MX32", "Analisis en tiempo real">>,
       suggested_actions |->
         take(suggested_actions_for(r.call.current_state, r.entities), 5),
       follow_up_questions |->
         take(follow_up_questions_for(r.call.current_state, r.entities), 3),
       session_id |-> session_or_default(r.call.session_id), memory_used |-> TRUE,
       rag_enabled |-> rag,
       intent |-> IF rag THEN "rag_analysis" ELSE "general_analysis",
       path |-> r.pc]

\* rag_langchain_agent.py:396-406: the turn is added to the session's
\* messages and the handler's envelope is returned.
lc_turn(r, envelope) ==
  << [role |-> "human", content |-> r.user_message],
     [role |-> "ai", content |-> envelope.response] >>

\* RAGLangChainAgent._get_chat_history: the last ten messages of the session.
get_chat_history(session_id) ==
  IF session_id \in DOMAIN lc_memory THEN last(lc_memory[session_id], 10) ELSE <<>>

\* A variant that chooses the handler by the intent alone.
lc_handler_by_intent(call, intent) ==
  IF intent = "rag_analysis" THEN "rag"
  ELSE IF intent \in StubIntents THEN "stub"
  ELSE "general"

\* rag_langchain_agent.py:383-394: which handler takes the message.
lc_handler(call, intent) ==
  IF intent = "rag_analysis" \/ call.rag_enabled THEN "rag"
  ELSE IF intent \in StubIntents THEN "stub"
  ELSE "general"

\* rag_langchain_agent.py:342-394: from the call to the first await, or to
\* the return when there is none on the way (a refusal, a stub handler).
LcStart(calls, limit, tasks) ==
  /\ nextId <= limit
  /\ Cardinality(DOMAIN req) < tasks
  /\ \E call \in calls :
       /\ call.agent = "langchain"
       /\ LET r == NewRequest(call)
              verdict == check_mexico_restriction(r.user_message)
              intent == determine_intent(r.user_message)
              handler == lc_handler(call, intent)
              started == [r EXCEPT !.intent = intent,
                                   !.entities = extract_entities_from_message(r.user_message)]
          IN  IF ~verdict[1]
                THEN /\ req' = (nextId :> returned(r, restriction_envelope(verdict[2], call.session_id))) @@ req
                     /\ UNCHANGED <<lc_memory, lc_entity>>
                ELSE /\ lc_entity' = lc_entity \cup {r.session}
                     /\ IF handler = "stub"
                          THEN LET envelope == stub_envelope(intent, call.session_id)
                               IN  /\ req' = (nextId :> returned(started, envelope)) @@ req
                                   /\ lc_memory' =
                                        (r.session :>
                                           (IF r.session \in DOMAIN lc_memory
                                              THEN lc_memory[r.session] ELSE <<>>)
                                           \o lc_turn(r, envelope))
                                        @@ lc_memory
                          ELSE /\ req' =
                                    (nextId :>
                                       [started EXCEPT
                                          !.pc = IF handler = "rag" THEN "lc_await_rag"
                                                 ELSE "lc_await_llm_general",
                                          !.estado = IF handler # "rag" THEN <<>>
                                                     ELSE estado_for(call, r.user_message)]) @@ req
                               /\ lc_memory' =
                                    IF r.session \in DOMAIN lc_memory THEN lc_memory
                                    ELSE (r.session :> <<>>) @@ lc_memory
  /\ nextId' = nextId + 1
  /\ UNCHANGED <<fn_message, fn_verdict, fn_call, fn_log, conversation_memory, lists, appended,
                 loop_tasks, loop_thread>>

\* The handler's envelope goes through lines 396-406.
lc_finish(id, r, envelope) ==
  /\ req' = [req EXCEPT ![id] = returned(r, envelope)]
  /\ lc_memory' = [lc_memory EXCEPT ![r.session] = @ \o lc_turn(r, envelope)]

\* _handle_rag_analysis_intent, line 424: the aggregator call returns, or
\* raises and the handler's except answers.
LcAggregatorReturns ==
  \E id \in DOMAIN req, world \in ChatWorlds :
    /\ req[id].pc = "lc_await_rag"
    /\ LET rag_data == consulta_estado_con_rag(req[id].estado, <<>>, world)
           r == [req[id] EXCEPT !.agg_calls = @ + 1,
                                !.aggregation = IF rag_data.raised THEN "raised" ELSE "ok"]
       IN  IF rag_data.raised
             THEN lc_finish(id, r, rag_handler_error(r.call.session_id))
             ELSE /\ req' = [req EXCEPT ![id] = [r EXCEPT !.pc = "lc_await_llm_rag"]]
                  /\ UNCHANGED lc_memory
    /\ UNCHANGED <<fn_message, fn_verdict, fn_call, fn_log, nextId, conversation_memory, lists,
                   appended, lc_entity, loop_tasks, loop_thread>>

\* Lines 431-464 and 485-513: the provider call returns and the handler
\* builds its envelope.  The construction names EntityExtractionResponse,
\* which rag_langchain_agent.py does not import (lines 13-25): where the name
\* is unbound it raises NameError and the handler's except answers, as it
\* does when the provider call raised or gave no text.  Both are taken.
LcProviderReturns ==
  \E id \in DOMAIN req, outcome \in ProviderOutcomes, name_bound \in BOOLEAN :
    /\ req[id].pc \in {"lc_await_llm_rag", "lc_await_llm_general"}
    /\ LET r == [req[id] EXCEPT !.llm_calls = @ + 1,
                                !.provider = Append(@, outcome)]
           response == generate_response(outcome)
       IN  IF response.raised \/ ~response.is_str \/ ~name_bound
             THEN lc_finish(id, r,
                            IF r.pc = "lc_await_llm_rag"
                              THEN rag_handler_error(r.call.session_id)
                              ELSE general_handler_error(r.call.session_id))
             ELSE lc_finish(id, r, handler_envelope(r, response.text))
    /\ UNCHANGED <<fn_message, fn_verdict, fn_call, fn_log, nextId, conversation_memory, lists,
                   appended, lc_entity, loop_tasks, loop_thread>>

-----------------------------------------------------------------------------
(* The scope guard applied as a pure function *)

\* Messages are made of at most MaxWords of these pieces, put one after the
\* other without a separator.
GuardWords ==
  <<
    <<"e","s","t","a","d","o","s">>,
    <<" ","u","n","i","d","o","s">>,
    <<"U","S","A">>,
    <<"C","A","N","A","D","A'">>,
    <<"J","a","l","i","s","c","o">>,
    <<"S","O","N","O","R","A">>,
    <<"m","e'","x","i","c","o">>,
    <<"h","o","l","a">>,
    <<" ">>,
    <<"c","a","u","s","a">>
  >>

MaxWords ==
  2

RECURSIVE Phrases(_)
Phrases(n) ==
  IF n = 0 THEN {<<>>}
  ELSE LET shorter == Phrases(n - 1)
       IN  shorter \cup {p \o GuardWords[i] : p \in shorter, i \in 1..Len(GuardWords)}

GuardMessages ==
  Phrases(MaxWords)

ApplyGuard ==
  /\ fn_verdict = <<FALSE, "pending">>
  /\ fn_verdict' = check_mexico_restriction(fn_message)
  /\ UNCHANGED <<fn_message, fn_call, fn_log, nextId, req, conversation_memory,
                 lists, appended, lc_memory, lc_entity, loop_tasks, loop_thread>>

-----------------------------------------------------------------------------
(* Specifications *)

MaxRequests ==
  1

MaxTurns ==
  13

MaxTasks ==
  2

\* The turns of the memory specifications: the same allowed message on the
\* default session, answered by the provider or failing with an exception.
MemoryCalls ==
  { Call(<<"simple", "direct", "">>, <<user(MsgEstado)>>, FALSE, <<>>) }

LcMemoryCalls ==
  { Call(<<"langchain", "direct", TestSession>>, <<user(MsgEstadoSimilar)>>, FALSE, <<>>) }

MemoryOutcomes ==
  {"ok", "not_object"}

InitAgents ==
  /\ nextId = 1
  /\ req = <<>>
  /\ conversation_memory = <<>>
  /\ lists = <<>>
  /\ appended = [s \in Sessions |-> <<>>]
  /\ lc_memory = <<>>
  /\ lc_entity = {}
  /\ loop_tasks = <<>>
  /\ loop_thread = 0

NoCall ==
  [fn |-> "none"]

Init ==
  /\ fn_message = <<>>
  /\ fn_verdict = <<FALSE, "pending">>
  /\ fn_call = NoCall
  /\ fn_log = <<>>
  /\ InitAgents

\* Chat requests, one at a time, of both agents and through the endpoint.
Next ==
  \/ SimpleStart(ChatCalls, MaxRequests, 1)
  \/ SimpleAggregatorReturns
  \/ SimpleProviderReturns(ProviderOutcomes)
  \/ LcStart(ChatCalls, MaxRequests, 1)
  \/ LcAggregatorReturns
  \/ LcProviderReturns
  \/ Deliver

Spec ==
  Init /\ [][Next]_vars

\* Turns on one session, each over before the next begins.
NextSeq ==
  \/ SimpleStart(MemoryCalls, MaxTurns, 1)
  \/ SimpleProviderReturns(MemoryOutcomes)
  \/ LcStart(LcMemoryCalls, MaxTurns, 1)
  \/ Deliver

SpecSeq ==
  Init /\ [][NextSeq]_vars

\* Turns on one session, up to MaxTasks of them in progress at once: the
\* coroutines interleave at their awaits.
NextMem ==
  \/ SimpleStart(MemoryCalls, MaxTurns, MaxTasks)
  \/ SimpleProviderReturns(MemoryOutcomes)
  \/ Deliver

SpecMem ==
  Init /\ [][NextMem]_vars

InitGuard ==
  /\ fn_message \in GuardMessages
  /\ fn_verdict = <<FALSE, "pending">>
  /\ fn_call = NoCall
  /\ fn_log = <<>>
  /\ InitAgents

NextGuard ==
  ApplyGuard

SpecGuard ==
  InitGuard /\ [][NextGuard]_vars

-----------------------------------------------------------------------------
(* The aggregator and the lookups applied on their own *)

\* The spellings aggregated: stored states in several letter cases, and a
\* name the store does not hold.
AggNames ==
  { StJalisco,
    <<"J","a","l","i","s","c","o">>,
    <<"J","A","L","I","S","C","O">>,
    StSonora,
    <<"S","o","n","o","r","a">>,
    StAtlantis }

ParameterLists ==
  { <<>>, <<"Economia", "Clima">>, <<"Clima">> }

OpenAiStates ==
  {"unconfigured", "ok", "raises"}

Aggregate ==
  /\ fn_log = <<>>
  /\ fn_log' = << [fn |-> "obtener_datos_estado_completo",
                   result |-> obtener_datos_estado_completo(fn_call.estado_nombre,
                                                            fn_call.world)] >>
  /\ UNCHANGED <<fn_message, fn_verdict, fn_call, nextId, req, conversation_memory,
                 lists, appended, lc_memory, lc_entity, loop_tasks, loop_thread>>

Consult ==
  /\ fn_log = <<>>
  /\ \E parametros \in ParameterLists :
       fn_log' = << [fn |-> "consulta_estado_con_rag", parametros |-> parametros,
                     result |-> consulta_estado_con_rag(fn_call.estado_nombre,
                                                        parametros, fn_call.world)] >>
  /\ UNCHANGED <<fn_message, fn_verdict, fn_call, nextId, req, conversation_memory,
                 lists, appended, lc_memory, lc_entity, loop_tasks, loop_thread>>

Lookup ==
  /\ fn_log = <<>>
  /\ \E endpoint \in LookupEndpoints, pregunta \in BOOLEAN, openai \in OpenAiStates :
       fn_log' = << [fn |-> "lookup", endpoint |-> endpoint,
                     result |-> lookup(endpoint, fn_call.estado_nombre, <<>>,
                                       pregunta, fn_call.world, openai)] >>
  /\ UNCHANGED <<fn_message, fn_verdict, fn_call, nextId, req, conversation_memory,
                 lists, appended, lc_memory, lc_entity, loop_tasks, loop_thread>>

SimilarStates ==
  /\ fn_log = <<>>
  /\ \E parametro \in {"Economia", "Clima"} :
       fn_log' = << [fn |-> "buscar_estados_similares", parametro |-> parametro,
                     result |-> buscar_estados_similares(fn_call.estado_nombre,
                                                         parametro, fn_call.world)] >>
  /\ UNCHANGED <<fn_message, fn_verdict, fn_call, nextId, req, conversation_memory,
                 lists, appended, lc_memory, lc_entity, loop_tasks, loop_thread>>

InitAgg ==
  /\ fn_message = <<>>
  /\ fn_verdict = <<FALSE, "pending">>
  /\ fn_call \in [fn : {"aggregate"}, estado_nombre : AggNames, world : Worlds]
  /\ fn_log = <<>>
  /\ InitAgents

NextAgg ==
  \/ Aggregate
  \/ Consult
  \/ Lookup
  \/ SimilarStates

SpecAgg ==
  InitAgg /\ [][NextAgg]_vars

-----------------------------------------------------------------------------
(* The intent classifier applied on its own *)

\* Messages are made of at most MaxWords of these pieces, put one after the
\* other without a separator.
IntentWords ==
  <<
    <<"C","O","M","P","A","R","A","R">>,
    <<"v","s">>,
    <<"c","a","m","b","i","o">>,
    <<"s","u","g","e","r","e","n","c","i","a">>,
    <<"q","u","e'"," ","h","a","c","e","r">>,
    <<"c","o","m","o">>,
    <<"D","a","t","o","s">>,
    <<"p","a","r","a","g","u","a","s">>,
    <<"h","o","l","a">>,
    <<" ">>
  >>

RECURSIVE IntentPhrases(_)
IntentPhrases(n) ==
  IF n = 0 THEN {<<>>}
  ELSE LET shorter == IntentPhrases(n - 1)
       IN  shorter \cup {p \o IntentWords[i] : p \in shorter, i \in 1..Len(IntentWords)}

\* The same message is classified once and then once more.
Classify ==
  /\ Len(fn_log) < 2
  /\ fn_log' = Append(fn_log, [fn |-> "determine_intent",
                               result |-> determine_intent(fn_message)])
  /\ UNCHANGED <<fn_message, fn_verdict, fn_call, nextId, req, conversation_memory,
                 lists, appended, lc_memory, lc_entity, loop_tasks, loop_thread>>

InitIntent ==
  /\ fn_message \in IntentPhrases(MaxWords)
  /\ fn_verdict = <<FALSE, "pending">>
  /\ fn_call = NoCall
  /\ fn_log = <<>>
  /\ InitAgents

NextIntent ==
  Classify

SpecIntent ==
  InitIntent /\ [][NextIntent]_vars

-----------------------------------------------------------------------------
(* The provider client called on its own *)

MaxCalls ==
  2

\* The outcomes of a call with stream=True: a 200 whose body is a stream of
\* lines, a non-2xx status, a connection failure.
StreamOutcomes ==
  {"ok", "status", "rate_limited", "connection"}

ChatCompletion ==
  /\ Len(fn_log) < MaxCalls
  /\ \E stream \in BOOLEAN, outcome \in ClientOutcomes :
       \E lines \in IF stream /\ outcome \in StreamOutcomes THEN Streams ELSE {<<>>} :
         fn_log' = Append(fn_log, [fn |-> "chat_completion", stream |-> stream,
                                   outcome |-> outcome, lines |-> lines,
                                   result |-> chat_completion(stream, outcome)])
  /\ UNCHANGED <<fn_message, fn_verdict, fn_call, nextId, req, conversation_memory,
                 lists, appended, lc_memory, lc_entity, loop_tasks, loop_thread>>

GenerateResponse ==
  /\ Len(fn_log) < MaxCalls
  /\ \E outcome \in ClientOutcomes :
       fn_log' = Append(fn_log, [fn |-> "generate_response", stream |-> FALSE,
                                 outcome |-> outcome, lines |-> <<>>,
                                 result |-> generate_response(outcome)])
  /\ UNCHANGED <<fn_message, fn_verdict, fn_call, nextId, req, conversation_memory,
                 lists, appended, lc_memory, lc_entity, loop_tasks, loop_thread>>

GenerateStreamingResponse ==
  /\ Len(fn_log) < MaxCalls
  /\ \E outcome \in StreamOutcomes, lines \in Streams :
       fn_log' = Append(fn_log, [fn |-> "generate_streaming_response",
                                 stream |-> TRUE, outcome |-> outcome, lines |-> lines,
                                 result |-> generate_streaming_response(outcome, lines)])
  /\ UNCHANGED <<fn_message, fn_verdict, fn_call, nextId, req, conversation_memory,
                 lists, appended, lc_memory, lc_entity, loop_tasks, loop_thread>>

InitClient ==
  /\ fn_message = <<>>
  /\ fn_verdict = <<FALSE, "pending">>
  /\ fn_call = NoCall
  /\ fn_log = <<>>
  /\ InitAgents

NextClient ==
  \/ ChatCompletion
  \/ GenerateResponse
  \/ GenerateStreamingResponse

SpecClient ==
  InitClient /\ [][NextClient]_vars

-----------------------------------------------------------------------------
(* The event loop: the round trips of concurrent requests *)

\* How a round trip waits.  The reads of the document store are calls of the
\* synchronous Firestore client (firestore.client(), .stream(), .get()) made
\* inside the coroutine without await: the loop's thread stays in the call
\* until the reply.  The GET of a metric source and the POST to the provider
\* are awaited aiohttp calls: the coroutine is suspended.
wait_of(op) ==
  IF op \in StoreReads THEN "blocking" ELSE "await"

\* The round trips of a chat request that aggregates a state and then asks
\* the provider, in the order the code makes them.
round_trips(estado_nombre) ==
  obtener_datos_estado_completo(estado_nombre, HealthyWorld).reads \o <<"provider">>

LoopStates ==
  {StJalisco, StSonora}

\* asyncio: a request's coroutine becomes a task of the loop.
LoopStart ==
  /\ Len(loop_tasks) < MaxTasks
  /\ \E estado_nombre \in LoopStates :
       loop_tasks' = Append(loop_tasks, [ops |-> round_trips(estado_nombre),
                                         at |-> 1, phase |-> "ready"])
  /\ UNCHANGED <<fn_message, fn_verdict, fn_call, fn_log, nextId, req,
                 conversation_memory, lists, appended, lc_memory, lc_entity,
                 loop_thread>>

\* The loop runs a ready task when no task is on its thread.
LoopRun(t) ==
  /\ loop_tasks[t].phase = "ready"
  /\ loop_thread = 0
  /\ loop_tasks' = [loop_tasks EXCEPT ![t].phase = "running"]
  /\ loop_thread' = t
  /\ UNCHANGED <<fn_message, fn_verdict, fn_call, fn_log, nextId, req,
                 conversation_memory, lists, appended, lc_memory, lc_entity>>

\* The running task makes its next round trip, or returns.  A blocking call
\* keeps the thread; an awaited call gives it back to the loop.
LoopCall(t) ==
  /\ loop_tasks[t].phase = "running"
  /\ IF loop_tasks[t].at > Len(loop_tasks[t].ops)
       THEN /\ loop_tasks' = [loop_tasks EXCEPT ![t].phase = "done"]
            /\ loop_thread' = 0
       ELSE IF wait_of(loop_tasks[t].ops[loop_tasks[t].at]) = "blocking"
         THEN /\ loop_tasks' = [loop_tasks EXCEPT ![t].phase = "blocked"]
              /\ loop_thread' = t
         ELSE /\ loop_tasks' = [loop_tasks EXCEPT ![t].phase = "suspended"]
              /\ loop_thread' = 0
  /\ UNCHANGED <<fn_message, fn_verdict, fn_call, fn_log, nextId, req,
                 conversation_memory, lists, appended, lc_memory, lc_entity>>

\* The reply of a round trip arrives: the blocking call returns into the
\* running task, the awaited one makes the task ready.
LoopReply(t) ==
  /\ loop_tasks[t].phase \in {"blocked", "suspended"}
  /\ loop_tasks' = [loop_tasks EXCEPT
                      ![t].at = @ + 1,
                      ![t].phase = IF @ = "blocked" THEN "running" ELSE "ready"]
  /\ UNCHANGED <<fn_message, fn_verdict, fn_call, fn_log, nextId, req,
                 conversation_memory, lists, appended, lc_memory, lc_entity,
                 loop_thread>>

NextLoop ==
  \/ LoopStart
  \/ \E t \in DOMAIN loop_tasks : LoopRun(t)
  \/ \E t \in DOMAIN loop_tasks : LoopCall(t)
  \/ \E t \in DOMAIN loop_tasks : LoopReply(t)

SpecLoop ==
  Init /\ [][NextLoop]_vars

-----------------------------------------------------------------------------
(* Vocabulary of the properties *)

\* The keyword, given in lower case, occurs in the text, letter case ignored.
OccursIgnoringCase(keyword, text) ==
  \E i \in 1..(Len(text) - Len(keyword) + 1) :
    \A j \in 1..Len(keyword) : lower_char(text[i + j - 1]) = keyword[j]

NamesForeignCountry(text) ==
  \E k \in 1..Len(external_countries) : OccursIgnoringCase(external_countries[k], text)

NamesMexicanContext(text) ==
  \E k \in 1..Len(mexico_indicators) : OccursIgnoringCase(mexico_indicators[k], text)

GuardApplied ==
  fn_verdict # <<FALSE, "pending">>

\* The agent was called and has returned to its caller.
AgentReturned(r) ==
  r.pc = "returned" /\ ~endpoint_rejects(r.call)

\* The session's list as the agent's dict holds it.
history(session_id) ==
  IF session_id \in DOMAIN conversation_memory
    THEN lists[conversation_memory[session_id]] ELSE <<>>

Quiescent ==
  \A id \in DOMAIN req : req[id].pc = "returned"

-----------------------------------------------------------------------------
(* The scope guard *)

\* C1: a message that names a foreign-country keyword, in any letter case, is
\* rejected with the foreign-country refusal, also when a Mexican-context
\* keyword occurs in it.
C1_ForeignKeywordRejected ==
  (GuardApplied /\ NamesForeignCountry(fn_message))
    => fn_verdict = <<FALSE, ForeignRefusal>>

\* The guard has judged a message that names both a foreign country and a
\* Mexican state.
C1_ForeignAndMexicanJudged ==
  /\ GuardApplied
  /\ NamesForeignCountry(fn_message)
  /\ NamesMexicanContext(fn_message)
  /\ fn_verdict = <<FALSE, ForeignRefusal>>

\* C2: a message without a foreign-country keyword is allowed exactly when a
\* Mexican-context keyword occurs in it; otherwise, the empty message
\* included, it is rejected with the generic refusal, which is not the text of
\* the foreign-country refusal.
C2_MexicanContextDecides ==
  (GuardApplied /\ ~NamesForeignCountry(fn_message))
    => /\ fn_verdict[1] <=> NamesMexicanContext(fn_message)
       /\ fn_verdict[1] => fn_verdict[2] = ""
       /\ ~fn_verdict[1] => fn_verdict[2] = MexicoOnlyRefusal
       /\ MexicoOnlyRefusal # ForeignRefusal

\* The guard has judged the empty message.
C2_EmptyMessageJudged ==
  /\ GuardApplied
  /\ fn_message = <<>>
  /\ fn_verdict = <<FALSE, MexicoOnlyRefusal>>

-----------------------------------------------------------------------------
(* The chat pipeline *)

\* C3: when the guard rejects the last message, process_chat_with_rag
\* returns the guard's refusal with confidence 1.0 and rag_enabled false,
\* whatever the rag flag of the request, and has called neither the
\* aggregator nor the provider.
C3_RejectedShortCircuits ==
  \A id \in DOMAIN req :
    LET r == req[id]
        verdict == check_mexico_restriction(r.user_message)
    IN  (AgentReturned(r) /\ ~verdict[1])
          => /\ r.envelope.response = verdict[2]
             /\ r.envelope.confidence = 10
             /\ r.envelope.rag_enabled = FALSE
             /\ r.agg_calls = 0
             /\ r.llm_calls = 0

\* A request about a foreign country, its rag flag set, was refused.
C3_RefusedWithRagFlag ==
  \E id \in DOMAIN req :
    /\ AgentReturned(req[id])
    /\ req[id].call.agent = "simple"
    /\ req[id].call.rag_enabled
    /\ req[id].user_message = MsgEstadosUnidos
    /\ req[id].envelope.response = ForeignRefusal

\* C4: a SimpleRAGAgent request with the rag flag set that passes the guard,
\* whose aggregation succeeded and whose provider call returned text, gets an
\* envelope with rag_enabled true, confidence 0.9, that text as its non-empty
\* response, and the label "RAG Analysis" among its sources.
C4_RagAnswerEnvelope ==
  \A id \in DOMAIN req :
    LET r == req[id]
    IN  (/\ AgentReturned(r)
         /\ r.call.agent = "simple"
         /\ r.call.rag_enabled
         /\ check_mexico_restriction(r.user_message)[1]
         /\ r.aggregation = "ok"
         /\ r.provider \in {<<"ok">>, <<"ok_table">>})
          => /\ r.envelope.rag_enabled = TRUE
             /\ r.envelope.confidence = 9
             /\ r.envelope.response \in {ProviderText, ProviderTable}
             /\ r.envelope.response # ""
             /\ \E i \in 1..Len(r.envelope.sources) :
                  r.envelope.sources[i] = "RAG Analysis"

\* The question about security in Jalisco, the rag flag set, was answered
\* from aggregated data.
C4_RagAnswerGiven ==
  \E id \in DOMAIN req :
    /\ AgentReturned(req[id])
    /\ req[id].call.agent = "simple"
    /\ req[id].call.rag_enabled
    /\ req[id].user_message = MsgSeguridadJalisco
    /\ req[id].aggregation = "ok"
    /\ req[id].provider = <<"ok">>
    /\ req[id].envelope.confidence = 9

\* The provider call whose result the request ended with failed with a
\* non-2xx status or at the connection.
ProviderFailed(r) ==
  /\ r.provider # <<>>
  /\ r.provider[Len(r.provider)] \in {"status", "connection"}

\* C5: when the provider answers with a non-2xx status or the connection to
\* it fails, the envelope is the degraded one: the apology, confidence 0.0, no
\* sources, rag_enabled false; the error is not delivered as the response with
\* a success confidence.
C5_ProviderFailureDegrades ==
  \A id \in DOMAIN req :
    LET r == req[id]
    IN  (AgentReturned(r) /\ r.call.agent = "simple" /\ ProviderFailed(r))
          => /\ r.envelope.response = ApologyText
             /\ r.envelope.confidence = 0
             /\ r.envelope.sources = <<>>
             /\ r.envelope.rag_enabled = FALSE

\* C6, as stated: when the state is not in the document store or the
\* aggregation fails, the envelope is the degraded one with confidence 0.0.
C6_AggregationFailureDegrades ==
  \A id \in DOMAIN req :
    LET r == req[id]
    IN  (AgentReturned(r) /\ r.call.agent = "simple" /\ r.aggregation = "raised")
          => /\ r.envelope.response = ApologyText
             /\ r.envelope.confidence = 0

\* C6: when the state is not in the document store or the aggregation
\* fails, SimpleRAGAgent asks the provider once, without aggregated data, and
\* returns what generate_response gave as the response, with rag_enabled false
\* and confidence 0.8; the envelope is the degraded one, confidence 0.0, only
\* when that provider call raised or gave no text.
C6_AggregationFailureFallsBack ==
  \A id \in DOMAIN req :
    LET r == req[id]
    IN  (AgentReturned(r) /\ r.call.agent = "simple" /\ r.aggregation = "raised")
          => /\ r.agg_calls = 1
             /\ r.llm_calls = 1
             /\ r.envelope.rag_enabled = FALSE
             /\ LET answer == generate_response(r.provider[1])
                IN  IF answer.raised \/ ~answer.is_str
                      THEN r.envelope = error_envelope(r.call.session_id)
                      ELSE /\ r.envelope.confidence = 8
                           /\ r.envelope.response = answer.text
                           /\ r.envelope.sources = <<"Base de datos MX32", "Cerebras AI">>

\* A request about a state the store does not hold was answered by the
\* provider without aggregated data.
C6_FallbackAnswerGiven ==
  \E id \in DOMAIN req :
    /\ AgentReturned(req[id])
    /\ req[id].call.agent = "simple"
    /\ req[id].call.current_state = StAtlantis
    /\ req[id].aggregation = "raised"
    /\ req[id].provider = <<"ok">>
    /\ req[id].envelope.confidence = 8

\* C7: no exception leaves process_chat_with_rag or the /deepchat/chat
\* endpoint: every call returns an envelope, and every request to the endpoint
\* gets a body, also when the provider or the document store raised.
C7_NothingEscapes ==
  \A id \in DOMAIN req :
    LET r == req[id]
    IN  r.pc = "returned"
          => /\ r.escaped = FALSE
             /\ AgentReturned(r) => r.envelope.path # "none"
             /\ r.call.via = "chat" => r.body.key \in {"text", "html"}

\* A request through the endpoint whose provider call raised got the degraded
\* envelope in a body.
C7_RaisedAndAnswered ==
  \E id \in DOMAIN req :
    /\ AgentReturned(req[id])
    /\ req[id].call.via = "chat"
    /\ req[id].provider # <<>>
    /\ generate_response(req[id].provider[Len(req[id].provider)]).raised
    /\ req[id].envelope = error_envelope(req[id].call.session_id)
    /\ req[id].body.key = "text"
    /\ req[id].body.content = ApologyText

\* The request ended where an answer is made: not in a refusal, not in the
\* outer except of process_chat_with_rag, not in the except of a handler.
Answered(r) ==
  /\ AgentReturned(r)
  /\ check_mexico_restriction(r.user_message)[1]
  /\ r.envelope \notin {error_envelope(r.call.session_id),
                        rag_handler_error(r.call.session_id),
                        general_handler_error(r.call.session_id)}

-----------------------------------------------------------------------------
(* The conversation memory *)

\* The history is the last `window` of the entries appended for the session.
IsLastOf(list, window, all) ==
  /\ Len(list) = IF Len(all) > window THEN window ELSE Len(all)
  /\ \A i \in 1..Len(list) : list[i] = all[Len(all) - Len(list) + i]

C10_NoRecentTurnLost ==
  Quiescent
    => \A s \in DOMAIN conversation_memory :
         \A i \in 1..Len(appended[s]) :
           i > Len(appended[s]) - Window
             => \E j \in 1..Len(history(s)) : history(s)[j] = appended[s][i]

-----------------------------------------------------------------------------
(* What a turn records *)

\* The request has just returned from SimpleRAGAgent in this step.
SimpleReturnsNow(id) ==
  /\ id \in DOMAIN req'
  /\ req'[id].call.agent = "simple"
  /\ AgentReturned(req'[id])
  /\ (id \notin DOMAIN req \/ req[id].pc # "returned")

\* The request got a result from its last provider call (no exception).
ProviderAnswered(r) ==
  /\ r.provider # <<>>
  /\ ~generate_response(r.provider[Len(r.provider)]).raised

-----------------------------------------------------------------------------
(* The aggregated view *)

\* Two names are spellings of one another when they differ in letter case
\* only; a name is known when the store holds a state under it.
SameName(a, b) ==
  lower(a) = lower(b)

KnownState(estado_nombre) ==
  \E i \in DOMAIN states_collection :
    states_collection[i].states_name = lower(estado_nombre)

Aggregated ==
  fn_log # <<>> /\ fn_log[1].fn = "obtener_datos_estado_completo"

Consulted ==
  fn_log # <<>> /\ fn_log[1].fn = "consulta_estado_con_rag"

\* C12 as stated: for a known state, every other spelling of the name gives
\* an equal view from obtener_datos_estado_completo and an equal record from
\* consulta_estado_con_rag.
C12_SpellingsGiveEqualViews ==
  \A other \in AggNames :
    KnownState(fn_call.estado_nombre) /\ SameName(other, fn_call.estado_nombre) =>
      /\ Aggregated =>
           fn_log[1].result = obtener_datos_estado_completo(other, fn_call.world)
      /\ Consulted =>
           fn_log[1].result
             = consulta_estado_con_rag(other, fn_log[1].parametros, fn_call.world)

\* C12: for a known state, every other spelling of the name gives a view and
\* a record equal in everything but the name, and the name of each (nombre
\* of the view, estado of the record) is the spelling that was given.
C12_SpellingsDifferInNameOnly ==
  \A other \in AggNames :
    KnownState(fn_call.estado_nombre) /\ SameName(other, fn_call.estado_nombre) =>
      /\ Aggregated =>
           LET mine == fn_log[1].result
               theirs == obtener_datos_estado_completo(other, fn_call.world)
           IN  /\ [mine EXCEPT !.nombre = <<>>] = [theirs EXCEPT !.nombre = <<>>]
               /\ mine.found => mine.nombre = fn_call.estado_nombre
               /\ fn_call.world = HealthyWorld => mine.found
      /\ Consulted =>
           LET mine == fn_log[1].result
               theirs == consulta_estado_con_rag(other, fn_log[1].parametros,
                                                 fn_call.world)
           IN  /\ [mine EXCEPT !.estado = <<>>] = [theirs EXCEPT !.estado = <<>>]
               /\ mine.estado = fn_call.estado_nombre

C12_CapitalisedNameAggregated ==
  /\ Aggregated
  /\ fn_call.estado_nombre = <<"J","a","l","i","s","c","o">>
  /\ fn_log[1].result.found
  /\ fn_log[1].result.id = "doc_jalisco"

\* C13: aggregating a name that matches no state record returns no view
\* (None: not found, no id, no parameter), and the only read made is the
\* query of the states: no parameter, analysis text or metric source is read.
C13_UnknownStateNoView ==
  Aggregated /\ ~KnownState(fn_call.estado_nombre) =>
    LET view == fn_log[1].result
    IN  /\ ~view.found
        /\ view.id = "" /\ view.nombre = <<>> /\ view.state_id_replacement = ""
        /\ view.parametros = <<>>
        /\ view.reads = <<"states">>

C13_UnknownStateAggregated ==
  /\ Aggregated
  /\ fn_call.estado_nombre = StAtlantis
  /\ fn_call.world = HealthyWorld
  /\ ~fn_log[1].result.found

\* The metric sources of a parameter whose GET is made: those that have a
\* document with a URL; and the named parameters of the catalog.
Fetched(api_id) ==
  api_id \in DOMAIN apis_collection /\ apis_collection[api_id].dynamic_url # <<>>

SuccessfulSources(param_doc, world) ==
  SelectSeq(param_doc.related_apis,
            LAMBDA api_id : Fetched(api_id) /\ world.fetch[api_id] = "ok")

FailedSources(param_doc, world) ==
  SelectSeq(param_doc.related_apis,
            LAMBDA api_id : Fetched(api_id) /\ world.fetch[api_id] # "ok")

NamedParameters ==
  {i \in DOMAIN parameters_collection : parameters_collection[i].name # ""}

StateDoc(estado_nombre) ==
  CHOOSE d \in {states_collection[i] : i \in DOMAIN states_collection} :
    d.states_name = lower(estado_nombre)

\* C14: when the reads of the store succeed, a metric source whose GET raises
\* or answers another status than 200 does not lose the view: for a state
\* with a state_id_replacement the metric list of every parameter is the list
\* of its sources whose GET succeeded, in order, one entry shorter per failed
\* source, whatever the other sources did.
C14_FailedSourceOnlyShortens ==
  Aggregated /\ KnownState(fn_call.estado_nombre) /\ fn_call.world.fails = "none"
             /\ StateDoc(fn_call.estado_nombre).state_id_replacement # "" =>
    LET view == fn_log[1].result
    IN  /\ view.found
        /\ \A i \in NamedParameters :
             LET param_doc == parameters_collection[i]
                 datos_apis == view.parametros[param_doc.name].datos_apis
                 ok == SuccessfulSources(param_doc, fn_call.world)
                 fetched == SelectSeq(param_doc.related_apis, Fetched)
             IN  /\ Len(datos_apis) = Len(ok)
                 /\ Len(datos_apis) = Len(fetched) - Len(FailedSources(param_doc, fn_call.world))
                 /\ \A k \in 1..Len(ok) :
                      /\ datos_apis[k].nombre = apis_collection[ok[k]].apis_name
                      /\ datos_apis[k].datos = <<"json", ok[k]>>

C14_OneSourceFailed ==
  /\ Aggregated
  /\ fn_call.estado_nombre = StJalisco
  /\ fn_call.world.fails = "none"
  /\ fn_call.world.fetch["api_delitos"] = "exception"
  /\ fn_call.world.fetch["api_percepcion"] = "ok"
  /\ fn_call.world.fetch["api_pib"] = "status"
  /\ fn_log[1].result.found
  /\ Len(fn_log[1].result.parametros["Situacion de Seguridad"].datos_apis) = 1
  /\ fn_log[1].result.parametros["Economia"].datos_apis = <<>>

\* The texts stored for a state and a parameter, and the entries of a view
\* built from a catalog document.
StoredTexts(estado_id, param_id) ==
  {t.added_text : t \in {u \in special_text_collection :
                           u.states_r = estado_id /\ u.parameter_r = param_id}}

EntriesOf(view, param_doc) ==
  {key \in DOMAIN view.parametros : view.parametros[key].id = param_doc.id}

ViewWellFormed(view) ==
  /\ DOMAIN view.parametros
       \subseteq {parameters_collection[i].name : i \in DOMAIN parameters_collection}
  /\ \A i \in NamedParameters :
       LET param_doc == parameters_collection[i]
           entry == view.parametros[param_doc.name]
           stored == StoredTexts(view.id, param_doc.id)
       IN  /\ param_doc.name \in DOMAIN view.parametros
           /\ entry.id = param_doc.id
           /\ IF stored = {}
                THEN entry.texto_analisis
                       = "No se encontro un texto de analisis para este parametro."
                ELSE entry.texto_analisis \in stored
           /\ (\/ param_doc.related_apis = <<>>
               \/ view.state_id_replacement = ""
               \/ SuccessfulSources(param_doc, fn_call.world) = <<>>)
                => entry.datos_apis = <<>>

\* C15 as stated: the keys of a view are parameters of the catalog and every
\* parameter of the catalog has an entry in it, with the stored text or the
\* placeholder and with an empty metric list when there is no metric data.
C15_EveryCatalogParameterPresent ==
  Aggregated /\ fn_log[1].result.found =>
    /\ ViewWellFormed(fn_log[1].result)
    /\ \A i \in DOMAIN parameters_collection :
         EntriesOf(fn_log[1].result, parameters_collection[i]) # {}

\* C15: the keys of a view are names of the catalog, and every parameter of
\* the catalog that has a name has an entry under that name, whose text is
\* the text stored for (state, parameter) or else the placeholder, and whose
\* metric list is empty when the parameter names no source, the state has no
\* state_id_replacement or no source answered; a parameter document without
\* a name has no entry.
C15_NamedCatalogParametersPresent ==
  Aggregated /\ fn_log[1].result.found =>
    /\ ViewWellFormed(fn_log[1].result)
    /\ \A i \in DOMAIN parameters_collection :
         parameters_collection[i].name = ""
           => EntriesOf(fn_log[1].result, parameters_collection[i]) = {}

C15_PlaceholderAndStoredText ==
  /\ Aggregated
  /\ fn_call.estado_nombre = StSonora
  /\ fn_log[1].result.found
  /\ fn_log[1].result.parametros["Economia"].texto_analisis
       = "Sonora crece por la mineria."
  /\ fn_log[1].result.parametros["Educacion"].texto_analisis = TextPlaceholder
  /\ fn_log[1].result.parametros["Economia"].datos_apis = <<>>
  /\ DOMAIN fn_log[1].result.parametros
       = {"Situacion de Seguridad", "Economia", "Educacion"}

\* C16 as stated: a state the store holds always gets a view, whatever else
\* fails during the aggregation (the enumeration of the parameters, the
\* lookup of a text, the read of a metric source's document, a GET), and the
\* consultation built on it never answers 404 for such a state.
C16_OnlyMissingStateFails ==
  KnownState(fn_call.estado_nombre) /\ fn_call.world.fails # "states" =>
    /\ Aggregated => fn_log[1].result.found
    /\ Consulted => ~fn_log[1].result.raised

-----------------------------------------------------------------------------
(* The lookups about one state *)

LookedUp ==
  fn_log # <<>> /\ fn_log[1].fn = "lookup"

\* C20 as stated: every lookup about a state (consulta_estado_con_rag,
\* consulta_ia_estado, obtener_resumen_estado_rag, the parameters of a state)
\* answers a name the store does not hold with status 404.
C20_UnknownStateIs404 ==
  LookedUp /\ ~KnownState(fn_call.estado_nombre) =>
    fn_log[1].result.status_code = 404

-----------------------------------------------------------------------------
(* The intent of a message *)

\* The buckets in their order of priority, and whether a message matches one:
\* one of its keywords occurs in the message in lower case.
Buckets ==
  << <<"comparison", comparison_keywords>>,
     <<"trend_analysis", trend_keywords>>,
     <<"recommendations", recommendation_keywords>>,
     <<"similar_states", similar_keywords>>,
     <<"rag_analysis", rag_intent_keywords>> >>

Matches(i, message) ==
  \E k \in 1..Len(Buckets[i][2]) : contains(Buckets[i][2][k], lower(message))

\* C17: the intent of a message is the bucket of highest priority (in the
\* order comparison, trend_analysis, recommendations, similar_states,
\* rag_analysis) one of whose keywords occurs in the lowercased message,
\* general_analysis when none does, and classifying the message again gives
\* the same intent.
C17_FirstMatchingBucket ==
  \A n \in 1..Len(fn_log) :
    fn_log[n].fn = "determine_intent" =>
      LET intent == fn_log[n].result
          matching == {i \in 1..Len(Buckets) : Matches(i, fn_message)}
      IN  /\ matching = {} => intent = "general_analysis"
          /\ \A i \in matching :
               (\A j \in matching : i <= j) => intent = Buckets[i][1]
          /\ intent = fn_log[1].result

C17_SeveralBucketsMatched ==
  /\ Len(fn_log) = 2
  /\ fn_log[1].fn = "determine_intent"
  /\ fn_message = <<"c","a","m","b","i","o">> \o <<"v","s">>
  /\ Matches(1, fn_message) /\ Matches(2, fn_message)
  /\ fn_log[2].result = "comparison"

-----------------------------------------------------------------------------
(* The suggestions of an envelope *)

\* C18: every envelope an agent returns, whether an answer, a refusal or an
\* error apology, has at most 5 suggested actions and at most 3 follow-up
\* questions, and those of an answer are the first 5 and the first 3 of the
\* ones made from the context state and the entities of the message.
C18_SuggestionsCapped ==
  \A id \in DOMAIN req :
    LET r == req[id]
    IN  r.pc = "returned" =>
          /\ Len(r.envelope.suggested_actions) <= 5
          /\ Len(r.envelope.follow_up_questions) <= 3
          /\ Answered(r) =>
               LET actions == suggested_actions_for(r.call.current_state, r.entities)
               IN  \A i \in 1..Len(r.envelope.suggested_actions) :
                     r.envelope.suggested_actions[i] = actions[i]

C18_SixActionsCutToFive ==
  \E id \in DOMAIN req :
    /\ req[id].pc = "returned"
    /\ Len(suggested_actions_for(req[id].call.current_state, req[id].entities)) = 6
    /\ Len(req[id].envelope.suggested_actions) = 5
    /\ Len(req[id].envelope.follow_up_questions) = 3

-----------------------------------------------------------------------------
(* The failures of the provider client *)

\* C19: no call of chat_completion raises; a response with a non-2xx status
\* is returned as a failure value that carries the status and the body text,
\* and a connection failure is returned as a failure value with its message.
C19_FailuresAreValues ==
  \A n \in 1..Len(fn_log) :
    fn_log[n].fn = "chat_completion" =>
      LET result == fn_log[n].result
          response == exchange(fn_log[n].outcome)
      IN  /\ ~result.raised
          /\ ~response.raises /\ response.status \notin 200..299 =>
               /\ result.kind = "dict" /\ "error" \in result.keys
               /\ result.error = "API Error: " \o ToString(response.status)
               /\ result.details = response.text
          /\ response.raises =>
               /\ result.kind = "dict" /\ "error" \in result.keys
               /\ result.error = "Connection Error"
               /\ result.details = response.text

C19_BothFailuresReturned ==
  /\ Len(fn_log) = 2
  /\ fn_log[1].fn = "chat_completion" /\ fn_log[1].outcome = "rate_limited"
  /\ fn_log[1].result.error = "API Error: 429"
  /\ fn_log[1].result.details = "Too Many Requests"
  /\ fn_log[2].fn = "chat_completion" /\ fn_log[2].outcome = "connection"
  /\ fn_log[2].result.error = "Connection Error"

-----------------------------------------------------------------------------
(* The calls a request makes *)

\* C21 as stated: a chat request invokes the provider at most once, whatever
\* the aggregation did and whatever the provider returns or raises.
C21_ProviderCalledAtMostOnce ==
  \A id \in DOMAIN req :
    /\ req[id].llm_calls <= 1
    /\ Len(req[id].provider) <= 1

-----------------------------------------------------------------------------
(* Suspension points *)

\* A request waits on a round trip: a query of the document store, the GET
\* of a metric source or the call of the provider is in flight.
WaitsOn(t) ==
  IF loop_tasks[t].phase \in {"blocked", "suspended"}
    THEN loop_tasks[t].ops[loop_tasks[t].at] ELSE "nothing"

\* C22 as stated: while a request waits on a round trip, whichever it is,
\* another request that is ready to run can run.
C22_EveryRoundTripSuspends ==
  \A t \in DOMAIN loop_tasks, u \in DOMAIN loop_tasks :
    t # u /\ WaitsOn(t) # "nothing" /\ loop_tasks[u].phase = "ready" =>
      ENABLED LoopRun(u)

\* The aggregator was invoked for the request, or is being invoked.
AggregationStarted(r) ==
  r.agg_calls > 0 \/ r.pc \in {RagPc, "lc_await_rag"}

Allowed(r) ==
  check_mexico_restriction(r.user_message)[1]

-----------------------------------------------------------------------------
(* Streaming *)

\* The deltas of a streamed body: the non-empty contents of its delta lines,
\* in the order of arrival.
Deltas(lines) ==
  LET filled == SelectSeq(lines, LAMBDA line : line.kind = "delta" /\ line.content # "")
  IN  [i \in 1..Len(filled) |-> filled[i].content]

\* C24 as stated: for a 200 response, chat_completion with the streaming
\* flag and generate_streaming_response both deliver exactly the deltas of
\* the body, in order, and no line of the body ends the stream early.
C24_StreamDeliversDeltas ==
  \A n \in 1..Len(fn_log) :
    LET call == fn_log[n]
    IN  /\ call.fn \in {"chat_completion", "generate_streaming_response"}
        /\ call.stream
        /\ ~exchange(call.outcome).raises
        /\ exchange(call.outcome).status = 200
        => /\ ~call.result.raised
           /\ call.result.kind = "stream"
           /\ call.result.chunks = Deltas(call.lines)

-----------------------------------------------------------------------------
(* The tool of the similar states *)

SimilarSearched ==
  fn_log # <<>> /\ fn_log[1].fn = "buscar_estados_similares"

\* C25: whenever the lookup of the reference state succeeds,
\* buscar_estados_similares answers success with an empty list of similar
\* states and aggregates the reference state only: one aggregation, none of
\* a candidate state.
C25_SimilarStatesEmpty ==
  SimilarSearched
    /\ ~consulta_estado_con_rag(fn_call.estado_nombre, <<fn_log[1].parametro>>,
                                fn_call.world).raised
    => /\ fn_log[1].result.success
       /\ fn_log[1].result.estados_similares = <<>>
       /\ fn_log[1].result.aggregations = 1

C25_ReferenceFound ==
  /\ SimilarSearched
  /\ fn_call.estado_nombre = <<"J","a","l","i","s","c","o">>
  /\ fn_call.world = HealthyWorld
  /\ fn_log[1].parametro = "Economia"
  /\ fn_log[1].result.success
  /\ fn_log[1].result.estados_similares = <<>>

-----------------------------------------------------------------------------
(* The body of the chat endpoints *)

\* The body carries the envelope: its confidence, sources, session id and
\* rag_enabled flag, with the response as text or html.
CarriesEnvelope(body, envelope) ==
  /\ body.key \in {"text", "html"}
  /\ body.from_envelope
  /\ body.confidence = envelope.confidence
  /\ body.sources = envelope.sources
  /\ body.session_id = envelope.session_id
  /\ body.rag_enabled = envelope.rag_enabled

\* C26 as stated: every request accepted by /deepchat/chat or
\* /deepchat/chat-advanced (a non-empty message list whose last message is
\* the user's) is answered with a body that carries the agent's envelope.
C26_BodyCarriesEnvelope ==
  \A id \in DOMAIN req :
    LET r == req[id]
    IN  r.pc = "returned" /\ through_endpoint(r.call) /\ ~endpoint_rejects(r.call)
          => CarriesEnvelope(r.body, r.envelope)

-----------------------------------------------------------------------------
(* When SimpleRAGAgent aggregates *)

\* The message holds one of the trigger keywords of simple_rag_agent.py:139.
HasTrigger(r) ==
  any_keyword_in(rag_keywords, lower(r.user_message))

\* C27: SimpleRAGAgent returns an envelope with rag_enabled only when the
\* request's rag flag was set, the guard allowed the message, the message
\* held a trigger keyword and the aggregator returned without error; and it
\* never asks the aggregator when the flag is off or no keyword is present.
C27_RagEnabledOnlyAfterAggregation ==
  \A id \in DOMAIN req :
    LET r == req[id]
    IN  r.call.agent = "simple" =>
          /\ AgentReturned(r) /\ r.envelope.rag_enabled
                => /\ r.call.rag_enabled
                   /\ check_mexico_restriction(r.user_message)[1]
                   /\ HasTrigger(r)
                   /\ r.agg_calls = 1
                   /\ r.aggregation = "ok"
          /\ ~r.call.rag_enabled \/ ~HasTrigger(r)
                => r.agg_calls = 0 /\ r.aggregation = "none"

\* SimpleRAGAgent returned an envelope with rag_enabled after an aggregation
\* that succeeded.
C27_RagAnswer ==
  \E id \in DOMAIN req :
    /\ req[id].call.agent = "simple"
    /\ AgentReturned(req[id])
    /\ req[id].envelope.rag_enabled
    /\ req[id].call.rag_enabled
    /\ HasTrigger(req[id])
    /\ req[id].aggregation = "ok"

-----------------------------------------------------------------------------
(* The state a chat request aggregates *)

\* The message names the state.
Names(message, state) ==
  contains(lower(state), lower(message))

\* C28: the state a chat request aggregates comes from the context only: it
\* is context.current_state when that is set and "jalisco" otherwise,
\* whichever state the message names; a request without context state that
\* aggregates, aggregates "jalisco", and an envelope with rag_enabled is built
\* from that aggregation.
C28_StateFromContextOnly ==
  \A id \in DOMAIN req :
    LET r == req[id]
    IN  /\ r.agg_calls > 0 =>
              /\ r.call.current_state # <<>> => r.estado = r.call.current_state
              /\ r.call.current_state = <<>> => r.estado = StJalisco
        /\ AgentReturned(r) /\ r.envelope.rag_enabled /\ r.call.current_state = <<>>
              => r.agg_calls = 1 /\ r.estado = StJalisco /\ r.aggregation = "ok"

\* SimpleRAGAgent answered an allowed message that names Sonora and not
\* Jalisco, sent without a context state, from the aggregation of "jalisco".
C28_SonoraAnsweredFromJalisco ==
  \E id \in DOMAIN req :
    /\ req[id].call.agent = "simple"
    /\ Answered(req[id])
    /\ Names(req[id].user_message, StSonora)
    /\ ~Names(req[id].user_message, StJalisco)
    /\ req[id].call.current_state = <<>>
    /\ req[id].estado = StJalisco
    /\ req[id].aggregation = "ok"
    /\ req[id].envelope.rag_enabled

-----------------------------------------------------------------------------
(* The shape of a session's history *)

\* The entries are pairs: a user entry, then the assistant entry of the same
\* turn.
Alternates(h) ==
  /\ Len(h) % 2 = 0
  /\ \A k \in 1..(Len(h) \div 2) :
        /\ h[2 * k - 1].role = "user"
        /\ h[2 * k].role = "assistant"
        /\ h[2 * k - 1].turn = h[2 * k].turn

\* An entry among the last Window appended for the session is not in its
\* history: the cut of a concurrent request has replaced the list.
TurnLost(s) ==
  \E i \in 1..Len(appended[s]) :
    /\ i > Len(appended[s]) - Window
    /\ \A j \in 1..Len(history(s)) : history(s)[j] # appended[s][i]

\* C29: in every reachable state, also with concurrent requests on one
\* session, each session's history in SimpleRAGAgent's store has even length
\* and alternates user, assistant from a user entry on; the two entries of a
\* pair are those of one turn, and the cut to the window leaves whole pairs.
C29_HistoryAlternates ==
  /\ \A s \in DOMAIN conversation_memory : Alternates(history(s))
  /\ \A l \in DOMAIN lists : Alternates(lists[l])

\* Concurrent requests on the session have cut its history to the window and
\* a cut has replaced the list another request had appended to.
C29_CutUnderConcurrency ==
  /\ Quiescent
  /\ Len(history("default")) = Window
  /\ Len(appended["default"]) > Window
  /\ TurnLost("default")

-----------------------------------------------------------------------------
(* The parameters of a consulted record *)

\* The names in a parameter list.
Requested(parametros) ==
  {parametros[i] : i \in 1..Len(parametros)}

\* C30: for a known state whose view was made, consulta_estado_con_rag
\* returns in datos_por_parametro exactly the requested names that are in
\* the view when a non-empty list is given (a name the view does not hold is
\* dropped, and the map may be empty), and every parameter of the view when
\* the list is absent or empty; its keys are always names of the view, each
\* with the view's text and data.
C30_RequestedParametersOfView ==
  Consulted /\ KnownState(fn_call.estado_nombre) /\ ~fn_log[1].result.raised =>
    LET view == obtener_datos_estado_completo(fn_call.estado_nombre, fn_call.world)
        datos == fn_log[1].result.datos_por_parametro
        parametros == fn_log[1].parametros
    IN  /\ DOMAIN datos \subseteq DOMAIN view.parametros
        /\ \A name \in DOMAIN view.parametros :
              name \in DOMAIN datos
                <=> (parametros = <<>> \/ name \in Requested(parametros))
        /\ \A name \in DOMAIN datos :
              /\ datos[name].texto_analisis = view.parametros[name].texto_analisis
              /\ datos[name].datos_apis = view.parametros[name].datos_apis

\* A known state was consulted for "Economia" and "Clima": the record holds
\* "Economia" alone, the view holding more parameters and no "Clima".
C30_UnknownNameDropped ==
  /\ Consulted
  /\ KnownState(fn_call.estado_nombre)
  /\ ~fn_log[1].result.raised
  /\ fn_log[1].parametros = <<"Economia", "Clima">>
  /\ DOMAIN fn_log[1].result.datos_por_parametro = {"Economia"}
  /\ Cardinality(DOMAIN obtener_datos_estado_completo(fn_call.estado_nombre,
                                                       fn_call.world).parametros) > 1

=============================================================================
